---------------------------- MODULE Spec2Model ----------------------------
(***************************************************************************)
(* Accident_Response_Model: the ML inference pipeline                      *)
(* (src/ml/inference_pipeline.py) with the detector's classification       *)
(* (src/ml/detector.py) and the severity scorer (src/ml/severity_scorer.py)*)
(* it calls.                                                               *)
(*                                                                         *)
(* Numbers.  Python floats are modelled by exact rationals:                *)
(*   - a confidence is a pair <<num, den>> (den > 0) meaning num/den;      *)
(*     a YOLO box confidence of p hundredths is <<p, 100>>;                *)
(*   - severity weights are kept doubled (3.0 is 6, 2.5 is 5, 0.5 is 1).   *)
(* The comparisons the code makes (>=, >, <) are made on the exact values. *)
(***************************************************************************)
EXTENDS Integers, Sequences, FiniteSets, TLC

-----------------------------------------------------------------------------
(* Bounds of the model *)

\* consecutive_frames_required ranges over 1..MaxN
MaxN == 3
\* a video holds at most MaxFrames sampled frames
MaxFrames == 3
\* at most MaxVideos calls of process_video are explored
MaxVideos == 1

-----------------------------------------------------------------------------
(* Rational helpers for the floats of the code *)

\* float(box.conf[0]) for a confidence of p hundredths
Conf(p) == <<p, 100>>

\* a >= b on floats
ConfGE(a, b) == a[1] * b[2] >= b[1] * a[2]

\* max(a, b) of Python: the first argument unless the second is larger
ConfMax(a, b) == IF ConfGE(a, b) THEN a ELSE b

RECURSIVE SumConf(_)
\* sum(v.confidence for v in vehicles), in hundredths
SumConf(s) == IF s = <<>> THEN 0 ELSE Head(s).confidence[1] + SumConf(Tail(s))

Max(a, b) == IF a >= b THEN a ELSE b
Min(a, b) == IF a <= b THEN a ELSE b

-----------------------------------------------------------------------------
(* detector.py *)

IncidentType == {"VEHICLE_COLLISION", "ROLLOVER", "MULTI_VEHICLE",
                 "PEDESTRIAN_IMPACT", "FIRE_SMOKE", "OTHER"}

\* COCO class ids the detector treats as vehicles
VEHICLE_CLASSES == {2, 3, 5, 7}
PERSON_CLASS == 0

\* results.names[class_id]
ClassName(class_id) ==
    CASE class_id = 0 -> "person"
      [] class_id = 2 -> "car"
      [] class_id = 3 -> "motorcycle"
      [] class_id = 5 -> "bus"
      [] class_id = 7 -> "truck"
      [] class_id = 16 -> "dog"
      [] OTHER -> "object"

\* AccidentDetector(confidence_threshold=0.5), in hundredths
DetectorThreshold == 50

\* Mutant of check_proximity: the 50 pixel margin is left out
check_proximity_NoMargin(bbox1, bbox2) ==
    LET c1x == (bbox1[1] + bbox1[3]) \div 2
        c1y == (bbox1[2] + bbox1[4]) \div 2
        c2x == (bbox2[1] + bbox2[3]) \div 2
        c2y == (bbox2[2] + bbox2[4]) \div 2
        d2  == (c1x - c2x) * (c1x - c2x) + (c1y - c2y) * (c1y - c2y)
        rhs == (bbox1[3] - bbox1[1]) + (bbox2[3] - bbox2[1])
    IN  rhs > 0 /\ 4 * d2 < rhs * rhs

\* _check_proximity(bbox1, bbox2, threshold=50):
\*   sqrt(dx^2 + dy^2) < ((x2_1 - x1_1) + (x2_2 - x1_2)) / 2 + 50
\* both sides doubled and squared (the right side must be positive)
check_proximity(bbox1, bbox2) ==
    LET c1x == (bbox1[1] + bbox1[3]) \div 2
        c1y == (bbox1[2] + bbox1[4]) \div 2
        c2x == (bbox2[1] + bbox2[3]) \div 2
        c2y == (bbox2[2] + bbox2[4]) \div 2
        d2  == (c1x - c2x) * (c1x - c2x) + (c1y - c2y) * (c1y - c2y)
        rhs == (bbox1[3] - bbox1[1]) + (bbox2[3] - bbox2[1]) + 2 * 50
    IN  rhs > 0 /\ 4 * d2 < rhs * rhs

\* Mutant of calculate_iou: disjoint boxes are not told apart, so two negative
\* extents multiply to a positive intersection
calculate_iou_NoClamp(bbox1, bbox2) ==
    LET x1_i == Max(bbox1[1], bbox2[1])
        y1_i == Max(bbox1[2], bbox2[2])
        x2_i == Min(bbox1[3], bbox2[3])
        y2_i == Min(bbox1[4], bbox2[4])
        intersection == (x2_i - x1_i) * (y2_i - y1_i)
        area1 == (bbox1[3] - bbox1[1]) * (bbox1[4] - bbox1[2])
        area2 == (bbox2[3] - bbox2[1]) * (bbox2[4] - bbox2[2])
        union == area1 + area2 - intersection
    IN  <<intersection, Max(union, 1)>>

\* _calculate_iou(bbox1, bbox2): the rational intersection / max(union, 1)
calculate_iou(bbox1, bbox2) ==
    LET x1_i == Max(bbox1[1], bbox2[1])
        y1_i == Max(bbox1[2], bbox2[2])
        x2_i == Min(bbox1[3], bbox2[3])
        y2_i == Min(bbox1[4], bbox2[4])
        intersection == (x2_i - x1_i) * (y2_i - y1_i)
        area1 == (bbox1[3] - bbox1[1]) * (bbox1[4] - bbox1[2])
        area2 == (bbox2[3] - bbox2[1]) * (bbox2[4] - bbox2[2])
        union == area1 + area2 - intersection
    IN  IF x2_i < x1_i \/ y2_i < y1_i
        THEN <<0, 1>>
        ELSE <<intersection, Max(union, 1)>>

\* Mutant of IouGT: the comparison is not strict
IouGT_OrEqual(iou, num, den) == iou[1] * den >= num * iou[2]

\* iou > num/den for a positive den
IouGT(iou, num, den) == iou[1] * den > num * iou[2]

\* the pairs (i, j), i < j, the nested loops over vehicles visit
VehiclePairs(vehicles) ==
    {p \in (1..Len(vehicles)) \X (1..Len(vehicles)) : p[1] < p[2]}

\* the first pair of S in the order the nested loops visit them
FirstPair(S) ==
    CHOOSE p \in S : \A q \in S : p[1] < q[1] \/ (p[1] = q[1] /\ p[2] <= q[2])

\* Mutant of count_overlapping_vehicles: the inner loop runs over all the
\* vehicles, so every overlapping pair is counted twice
count_overlapping_vehicles_Ordered(vehicles) ==
    Cardinality({p \in (1..Len(vehicles)) \X (1..Len(vehicles)) :
        /\ p[1] # p[2]
        /\ IouGT(calculate_iou(vehicles[p[1]].bbox, vehicles[p[2]].bbox), 1, 10)})

\* _count_overlapping_vehicles: the number of pairs with IoU > 0.1
count_overlapping_vehicles(vehicles) ==
    Cardinality({p \in VehiclePairs(vehicles) :
        IouGT(calculate_iou(vehicles[p[1]].bbox, vehicles[p[2]].bbox), 1, 10)})

\* Mutant of IsRollover: the two bounds count as rollovers
IsRollover_Inclusive(bbox) ==
    LET width  == bbox[3] - bbox[1]
        height == Max(bbox[4] - bbox[2], 1)
    IN  10 * width <= 7 * height \/ 7 * width >= 10 * height

\* aspect_ratio < 0.7 or aspect_ratio > 1 / 0.7, aspect_ratio = width / max(height, 1)
\* (1 / 0.7 and 10 / 7 are the same float)
IsRollover(bbox) ==
    LET width  == bbox[3] - bbox[1]
        height == Max(bbox[4] - bbox[2], 1)
    IN  10 * width < 7 * height \/ 7 * width > 10 * height

\* Mutant of classify_incident: the pairwise collision is looked for before
\* the pile-up
classify_incident_CollisionFirst(vehicles, pedestrians) ==
    LET close == {p \in (1..Len(pedestrians)) \X (1..Len(vehicles)) :
                     check_proximity(pedestrians[p[1]].bbox, vehicles[p[2]].bbox)}
        overlapping == count_overlapping_vehicles(vehicles)
        colliding == {p \in VehiclePairs(vehicles) :
                        IouGT(calculate_iou(vehicles[p[1]].bbox,
                                            vehicles[p[2]].bbox), 3, 10)}
        rolled == {i \in 1..Len(vehicles) : IsRollover(vehicles[i].bbox)}
    IN  IF vehicles = <<>>
        THEN <<"OTHER", <<0, 1>>, <<"No vehicles detected">>>>
        ELSE IF close # {}
        THEN LET p == FirstPair(close)
             IN  <<"PEDESTRIAN_IMPACT",
                   ConfMax(pedestrians[p[1]].confidence, vehicles[p[2]].confidence),
                   <<"pedestrian", Len(vehicles), Len(pedestrians)>>>>
        ELSE IF Len(vehicles) >= 2 /\ colliding # {}
        THEN LET p == FirstPair(colliding)
             IN  <<"VEHICLE_COLLISION",
                   ConfMax(vehicles[p[1]].confidence, vehicles[p[2]].confidence),
                   <<"collision",
                     calculate_iou(vehicles[p[1]].bbox, vehicles[p[2]].bbox)>>>>
        ELSE IF Len(vehicles) >= 3 /\ overlapping >= 2
        THEN <<"MULTI_VEHICLE",
               <<SumConf(vehicles), 100 * Len(vehicles)>>,
               <<"multi", Len(vehicles), overlapping>>>>
        ELSE IF rolled # {}
        THEN LET i == CHOOSE k \in rolled : \A m \in rolled : k <= m
             IN  <<"ROLLOVER", vehicles[i].confidence,
                   <<"rollover", vehicles[i].bbox[3] - vehicles[i].bbox[1],
                     Max(vehicles[i].bbox[4] - vehicles[i].bbox[2], 1)>>>>
        ELSE <<"OTHER", <<0, 1>>, <<"normal", Len(vehicles)>>>>

\* _classify_incident(vehicles, pedestrians, frame_shape): the first rule that
\* matches, as <<incident_type, confidence, description>>.  The description is
\* kept as the tuple of the values the f-string formats.
classify_incident(vehicles, pedestrians) ==
    LET close == {p \in (1..Len(pedestrians)) \X (1..Len(vehicles)) :
                     check_proximity(pedestrians[p[1]].bbox, vehicles[p[2]].bbox)}
        overlapping == count_overlapping_vehicles(vehicles)
        colliding == {p \in VehiclePairs(vehicles) :
                        IouGT(calculate_iou(vehicles[p[1]].bbox,
                                            vehicles[p[2]].bbox), 3, 10)}
        rolled == {i \in 1..Len(vehicles) : IsRollover(vehicles[i].bbox)}
    IN  IF vehicles = <<>>
        THEN <<"OTHER", <<0, 1>>, <<"No vehicles detected">>>>
        ELSE IF close # {}
        THEN LET p == FirstPair(close)
             IN  <<"PEDESTRIAN_IMPACT",
                   ConfMax(pedestrians[p[1]].confidence, vehicles[p[2]].confidence),
                   <<"pedestrian", Len(vehicles), Len(pedestrians)>>>>
        ELSE IF Len(vehicles) >= 3 /\ overlapping >= 2
        THEN <<"MULTI_VEHICLE",
               <<SumConf(vehicles), 100 * Len(vehicles)>>,
               <<"multi", Len(vehicles), overlapping>>>>
        ELSE IF Len(vehicles) >= 2 /\ colliding # {}
        THEN LET p == FirstPair(colliding)
             IN  <<"VEHICLE_COLLISION",
                   ConfMax(vehicles[p[1]].confidence, vehicles[p[2]].confidence),
                   <<"collision",
                     calculate_iou(vehicles[p[1]].bbox, vehicles[p[2]].bbox)>>>>
        ELSE IF rolled # {}
        THEN LET i == CHOOSE k \in rolled : \A m \in rolled : k <= m
             IN  <<"ROLLOVER", vehicles[i].confidence,
                   <<"rollover", vehicles[i].bbox[3] - vehicles[i].bbox[1],
                     Max(vehicles[i].bbox[4] - vehicles[i].bbox[2], 1)>>>>
        ELSE <<"OTHER", <<0, 1>>, <<"normal", Len(vehicles)>>>>

\* a YOLO box as detect reads it: class id, confidence in hundredths, xyxy
YoloBox(class_id, conf, bbox) ==
    [class_id |-> class_id, conf |-> conf, bbox |-> bbox]

\* DetectionResult of a kept box
DetectionResult(box) ==
    [class_id |-> box.class_id,
     class_name |-> ClassName(box.class_id),
     confidence |-> Conf(box.conf),
     bbox |-> box.bbox,
     center |-> <<(box.bbox[1] + box.bbox[3]) \div 2,
                  (box.bbox[2] + box.bbox[4]) \div 2>>]

\* Mutant of KeptBoxes: no box is skipped
KeptBoxes_KeepsAll(boxes) ==
    [i \in 1..Len(boxes) |-> DetectionResult(boxes[i])]

RECURSIVE KeptBoxes(_)
\* the loop over results.boxes: boxes under the detector floor are skipped
KeptBoxes(boxes) ==
    IF boxes = <<>> THEN <<>>
    ELSE IF Head(boxes).conf < DetectorThreshold
         THEN KeptBoxes(Tail(boxes))
         ELSE <<DetectionResult(Head(boxes))>> \o KeptBoxes(Tail(boxes))

IsVehicle(d) == d.class_id \in VEHICLE_CLASSES
IsPerson(d) == d.class_id = PERSON_CLASS

RECURSIVE BboxDicts(_)
\* bounding_boxes: one dict per kept box
BboxDicts(kept) ==
    IF kept = <<>> THEN <<>>
    ELSE <<[class |-> Head(kept).class_name,
            confidence |-> Head(kept).confidence,
            bbox |-> Head(kept).bbox]>> \o BboxDicts(Tail(kept))

\* AccidentDetector.detect(frame, frame_id) on a frame whose YOLO output is `boxes`
detect(boxes) ==
    LET kept == KeptBoxes(boxes)
        vehicles == SelectSeq(kept, IsVehicle)
        pedestrians == SelectSeq(kept, IsPerson)
        c == classify_incident(vehicles, pedestrians)
    IN  [detected |-> c[1] # "OTHER" /\ ConfGE(c[2], Conf(DetectorThreshold)),
         incident_type |-> c[1],
         confidence |-> c[2],
         vehicles |-> vehicles,
         pedestrians |-> pedestrians,
         bounding_boxes |-> BboxDicts(kept),
         description |-> c[3]]

-----------------------------------------------------------------------------
(* severity_scorer.py *)

\* SeverityScorer.WEIGHTS, doubled
WEIGHTS == [pedestrian |-> 6, rollover |-> 5, multi_vehicle |-> 4,
            fire_smoke |-> 7, vehicle_count |-> 1, high_speed |-> 4,
            high_traffic |-> 2]

\* SeverityScorer.THRESHOLDS
THRESHOLDS == [CRITICAL |-> 6, HIGH |-> 4, MEDIUM |-> 2, LOW |-> 0]

\* SeverityFactors(...) as the pipeline builds it: the fields it does not pass
\* keep their dataclass defaults (estimated_speed None is 0 here, and the
\* scorer tests it for truth before comparing it with 60)
SeverityFactors(vehicle_count, pedestrian_involved, is_rollover, is_multi_vehicle, detection_confidence) ==
    [vehicle_count |-> vehicle_count,
     pedestrian_involved |-> pedestrian_involved,
     is_rollover |-> is_rollover,
     is_multi_vehicle |-> is_multi_vehicle,
     fire_smoke_detected |-> FALSE,
     estimated_speed |-> 0,
     detection_confidence |-> detection_confidence,
     traffic_density |-> "normal"]

\* the defaults of the SeverityFactors dataclass (estimated_speed None is 0)
SeverityFactorsDefaults ==
    [vehicle_count |-> 0,
     pedestrian_involved |-> FALSE,
     is_rollover |-> FALSE,
     is_multi_vehicle |-> FALSE,
     fire_smoke_detected |-> FALSE,
     estimated_speed |-> 0,
     detection_confidence |-> <<0, 100>>,
     traffic_density |-> "normal"]

\* Mutant of Breakdown: every factor gets an entry, 0 when it added nothing
Breakdown_AllKeys(factors) ==
    [pedestrian_involved |->
         IF factors.pedestrian_involved THEN WEIGHTS.pedestrian ELSE 0,
     rollover |->
         IF factors.is_rollover THEN WEIGHTS.rollover ELSE 0,
     multi_vehicle |->
         IF factors.is_multi_vehicle THEN WEIGHTS.multi_vehicle ELSE 0,
     fire_smoke |->
         IF factors.fire_smoke_detected THEN WEIGHTS.fire_smoke ELSE 0,
     extra_vehicles |->
         IF factors.vehicle_count > 1
         THEN (factors.vehicle_count - 1) * WEIGHTS.vehicle_count ELSE 0,
     high_speed |->
         IF factors.estimated_speed # 0 /\ factors.estimated_speed > 60
         THEN WEIGHTS.high_speed ELSE 0,
     high_traffic |->
         IF factors.traffic_density = "high"
         THEN WEIGHTS.high_traffic ELSE 0]

\* the breakdown dict: an entry (doubled points) for each factor that added points
Breakdown(factors) ==
    LET all == [pedestrian_involved |->
                    IF factors.pedestrian_involved THEN WEIGHTS.pedestrian ELSE 0,
                rollover |->
                    IF factors.is_rollover THEN WEIGHTS.rollover ELSE 0,
                multi_vehicle |->
                    IF factors.is_multi_vehicle THEN WEIGHTS.multi_vehicle ELSE 0,
                fire_smoke |->
                    IF factors.fire_smoke_detected THEN WEIGHTS.fire_smoke ELSE 0,
                extra_vehicles |->
                    IF factors.vehicle_count > 1
                    THEN (factors.vehicle_count - 1) * WEIGHTS.vehicle_count ELSE 0,
                high_speed |->
                    IF factors.estimated_speed # 0 /\ factors.estimated_speed > 60
                    THEN WEIGHTS.high_speed ELSE 0,
                high_traffic |->
                    IF factors.traffic_density = "high"
                    THEN WEIGHTS.high_traffic ELSE 0]
        present == {k \in DOMAIN all :
                      CASE k = "pedestrian_involved" -> factors.pedestrian_involved
                        [] k = "rollover" -> factors.is_rollover
                        [] k = "multi_vehicle" -> factors.is_multi_vehicle
                        [] k = "fire_smoke" -> factors.fire_smoke_detected
                        [] k = "extra_vehicles" -> factors.vehicle_count > 1
                        [] k = "high_speed" -> factors.estimated_speed # 0
                                               /\ factors.estimated_speed > 60
                        [] k = "high_traffic" -> factors.traffic_density = "high"}
    IN  [k \in present |-> all[k]]

RECURSIVE SumOver(_, _)
\* the running `score += points`
SumOver(f, keys) ==
    IF keys = {} THEN 0
    ELSE LET k == CHOOSE x \in keys : TRUE
         IN  f[k] + SumOver(f, keys \ {k})

\* Mutant of calculate_severity: the thresholds are compared strictly
calculate_severity_StrictThresholds(factors) ==
    LET breakdown == Breakdown(factors)
        sum2 == SumOver(breakdown, DOMAIN breakdown)
        c == factors.detection_confidence
        n == IF c[1] <= c[2] THEN c[1] ELSE c[2]
        d == c[2]
        score == <<sum2 * (2 * n + d), 4 * d>>
        level == IF score[1] > THRESHOLDS.CRITICAL * score[2] THEN "CRITICAL"
                 ELSE IF score[1] > THRESHOLDS.HIGH * score[2] THEN "HIGH"
                 ELSE IF score[1] > THRESHOLDS.MEDIUM * score[2] THEN "MEDIUM"
                 ELSE "LOW"
    IN  [level |-> level, score |-> score, breakdown |-> breakdown]

\* Mutant of calculate_severity: the confidence scaling subtracts 0.5
calculate_severity_SubtractsHalf(factors) ==
    LET breakdown == Breakdown(factors)
        sum2 == SumOver(breakdown, DOMAIN breakdown)
        c == factors.detection_confidence
        n == IF c[1] <= c[2] THEN c[1] ELSE c[2]
        d == c[2]
        score == <<sum2 * (2 * n - d), 4 * d>>
        level == IF score[1] >= THRESHOLDS.CRITICAL * score[2] THEN "CRITICAL"
                 ELSE IF score[1] >= THRESHOLDS.HIGH * score[2] THEN "HIGH"
                 ELSE IF score[1] >= THRESHOLDS.MEDIUM * score[2] THEN "MEDIUM"
                 ELSE "LOW"
    IN  [level |-> level, score |-> score, breakdown |-> breakdown]

\* SeverityScorer.calculate_severity(factors): level, score and breakdown.
\* score = (sum of points) * (min(detection_confidence, 1.0) + 0.5); with the
\* points doubled (sum2) and min(confidence, 1) = n/d it is
\* sum2 * (2n + d) / (4d), kept as that fraction.
calculate_severity(factors) ==
    LET breakdown == Breakdown(factors)
        sum2 == SumOver(breakdown, DOMAIN breakdown)
        c == factors.detection_confidence
        n == IF c[1] <= c[2] THEN c[1] ELSE c[2]
        d == c[2]
        score == <<sum2 * (2 * n + d), 4 * d>>
        level == IF score[1] >= THRESHOLDS.CRITICAL * score[2] THEN "CRITICAL"
                 ELSE IF score[1] >= THRESHOLDS.HIGH * score[2] THEN "HIGH"
                 ELSE IF score[1] >= THRESHOLDS.MEDIUM * score[2] THEN "MEDIUM"
                 ELSE "LOW"
    IN  [level |-> level, score |-> score, breakdown |-> breakdown]

\* SeverityScorer.get_response_recommendation(severity)
get_response_recommendation(severity) ==
    CASE severity = "CRITICAL" ->
            [ambulance |-> "IMMEDIATE - Prompt operator for dispatch",
             police |-> "IMMEDIATE - Auto-generate report",
             notification |-> "Flash alert + audio alarm",
             priority |-> "P0 - Handle immediately"]
      [] severity = "HIGH" ->
            [ambulance |-> "RECOMMENDED - Prompt operator",
             police |-> "Generate report within 5 minutes",
             notification |-> "Visual alert",
             priority |-> "P1 - Handle within 2 minutes"]
      [] severity = "MEDIUM" ->
            [ambulance |-> "OPTIONAL - Based on verification",
             police |-> "Generate report after verification",
             notification |-> "Standard notification",
             priority |-> "P2 - Handle within 10 minutes"]
      [] OTHER ->
            [ambulance |-> "NOT REQUIRED",
             police |-> "Log only, no immediate report",
             notification |-> "Low priority notification",
             priority |-> "P3 - Review when available"]

\* Mutant of ConvenienceDefaults: the confidence defaults to quick_severity's 0.8
ConvenienceDefaults_QuickConfidence ==
    [vehicle_count |-> 1,
     pedestrian_involved |-> FALSE,
     is_rollover |-> FALSE,
     is_multi_vehicle |-> FALSE,
     fire_smoke |-> FALSE,
     confidence |-> <<80, 100>>]

\* the default arguments of the module-level calculate_severity
ConvenienceDefaults ==
    [vehicle_count |-> 1,
     pedestrian_involved |-> FALSE,
     is_rollover |-> FALSE,
     is_multi_vehicle |-> FALSE,
     fire_smoke |-> FALSE,
     confidence |-> <<85, 100>>]

\* the arguments of a call with the keyword arguments kwargs: an argument
\* that is not passed takes its default
Bound(kwargs) ==
    [k \in DOMAIN ConvenienceDefaults |->
        IF k \in DOMAIN kwargs THEN kwargs[k] ELSE ConvenienceDefaults[k]]

\* the module-level calculate_severity with keyword arguments: level, score, recommendation
convenience_calculate_severity(kwargs) ==
    LET a == Bound(kwargs)
        factors == [vehicle_count |-> a.vehicle_count,
                    pedestrian_involved |-> a.pedestrian_involved,
                    is_rollover |-> a.is_rollover,
                    is_multi_vehicle |-> a.is_multi_vehicle,
                    fire_smoke_detected |-> a.fire_smoke,
                    estimated_speed |-> SeverityFactorsDefaults.estimated_speed,
                    detection_confidence |-> a.confidence,
                    traffic_density |-> SeverityFactorsDefaults.traffic_density]
        r == calculate_severity(factors)
    IN  [level |-> r.level, score |-> r.score,
         recommendation |-> get_response_recommendation(r.level)]

-----------------------------------------------------------------------------
(* The frames fed to the pipeline: the YOLO output of each camera scene *)

CarA == <<100, 100, 200, 200>>
CarB == <<120, 100, 220, 200>>
WideCar == <<300, 300, 500, 400>>
PersonNear == <<210, 100, 240, 200>>
PersonFar == <<900, 100, 930, 200>>
Dog == <<600, 600, 640, 630>>

Scenes ==
    { <<YoloBox(2, 90, CarA), YoloBox(7, 40, CarB)>>,
      <<YoloBox(0, 60, PersonNear), YoloBox(2, 90, CarA)>>,
      <<YoloBox(2, 75, CarA), YoloBox(7, 72, CarB)>>,
      <<YoloBox(3, 60, WideCar), YoloBox(0, 80, PersonFar), YoloBox(16, 70, Dog)>> }

-----------------------------------------------------------------------------
(* inference_pipeline.py: the state of one InferencePipeline instance *)

\* camera ids passed by the callers
Cameras == {1, 2}

\* confidence_threshold values, in hundredths: the default and run_demo's
ConfidenceThresholds == {70, 85}

\* what _submit_incident can meet: a 200 response, another status, an exception
SubmitOutcomes == {"accepted", "rejected", "error"}

VARIABLES
    consecutive_frames_required,  \* self.consecutive_frames_required
    confidence_threshold,         \* self.confidence_threshold, in hundredths
    detection_buffer,             \* self.detection_buffer
    incidents_reported,           \* self.incidents_reported
    current_video,                \* self.video_processor.current_video is open
    pv,                           \* the running process_video call
    result,                       \* how the last entry-point call ended
    api,                          \* the external API: POSTs sent to it, POSTs that failed
    last,                         \* history: the last frame whose hypothesis was
                                  \*   processed: its YOLO output, whether it qualified,
                                  \*   the report it produced, `since` before it, and
                                  \*   how the submission of the report ended
    since,                        \* history: qualifying hypotheses since the last
                                  \*   break, reset or emission
    hrun,                         \* history: qualifying hypotheses since the last
                                  \*   break or reset (emissions do not restart it)
    run_emits,                    \* history: reports emitted during that run
    cam_run,                      \* history: per camera, its most recent frames
                                  \*   that all qualified
    trace,                        \* history: the last frames processed, newest last
    videos,                       \* history: process_video calls so far
    call,                         \* a direct call of a function of detector.py or
                                  \*   severity_scorer.py, or a request to a handler
                                  \*   of the backend: the function, its arguments
                                  \*   and, once it returned, its value (the status
                                  \*   code of a handler)
    video_processor,              \* a VideoProcessor of video_processor.py, used directly
    captures,                     \* the cv2.VideoCapture objects opened so far
    frames_gen,                   \* the generator returned by extract_frames
    file_gen,                     \* the generator returned by process_video_file
    yielded,                      \* history: the FrameData yielded by frames_gen
    first,                        \* history: the extract_frames generators started
                                  \*   since the video was loaded (counted to 2) and
                                  \*   what the first one yielded
    db,                           \* the backend database: incidents and dispatch logs
    background_tasks,             \* the tasks queued with BackgroundTasks.add_task
    verified,                     \* history: the incidents that have been VERIFIED
    scene                         \* what the camera shows: the YOLO output of its
                                  \*   frames (<<>> when the scene changes freely)

vars == <<consecutive_frames_required, confidence_threshold, detection_buffer,
          incidents_reported, current_video, pv, result, api, last, since,
          hrun, run_emits, cam_run, trace, videos, call,
          video_processor, captures, frames_gen, file_gen, yielded, first,
          db, background_tasks, verified, scene>>

\* the state of the video processor used directly and of its generators
video == <<video_processor, captures, frames_gen, file_gen, yielded, first>>

\* the state of the backend
backend == <<db, background_tasks, verified>>

\* the state of the pipeline instance and its history
pipeline == <<consecutive_frames_required, confidence_threshold, detection_buffer,
              incidents_reported, current_video, pv, result, api, last, since,
              hrun, run_emits, cam_run, trace, videos>>

config == <<consecutive_frames_required, confidence_threshold>>

\* the history counters stop counting here: two full confirmation runs
RunCap == 2 * consecutive_frames_required
\* the buffer never needs more history than this
TraceLen == consecutive_frames_required - 1

\* Mutant of Qualifies: the incident confidence floor is not tested
Qualifies_NoFloor(detection) ==
    detection.detected

\* `detection.detected and detection.confidence >= self.confidence_threshold`
Qualifies(detection) ==
    detection.detected /\ ConfGE(detection.confidence, Conf(confidence_threshold))

\* Mutant of PipelineFactors: only an impact counts as a pedestrian involved
PipelineFactors_PedestrianFromType(detection) ==
    SeverityFactors(Len(detection.vehicles),
                    detection.incident_type = "PEDESTRIAN_IMPACT",
                    detection.incident_type = "ROLLOVER",
                    detection.incident_type = "MULTI_VEHICLE",
                    detection.confidence)

\* Mutant of PipelineFactors: a pile-up is any frame with three vehicles
PipelineFactors_ThreeVehicles(detection) ==
    SeverityFactors(Len(detection.vehicles),
                    Len(detection.pedestrians) > 0,
                    detection.incident_type = "ROLLOVER",
                    Len(detection.vehicles) >= 3,
                    detection.confidence)

\* SeverityFactors(...) of lines 120-126 (batch) and 244-250 (streaming)
PipelineFactors(detection) ==
    SeverityFactors(Len(detection.vehicles),
                    Len(detection.pedestrians) > 0,
                    detection.incident_type = "ROLLOVER",
                    detection.incident_type = "MULTI_VEHICLE",
                    detection.confidence)

\* Mutant of BuildReport: pedestrian_involved is taken from the incident type
BuildReport_PedestrianFromType(camera_id, detection, snapshots) ==
    LET factors == PipelineFactors(detection)
        severity == calculate_severity(factors).level
    IN  [camera_id |-> camera_id,
         incident_type |-> detection.incident_type,
         severity |-> severity,
         confidence_score |-> detection.confidence,
         vehicles_involved |-> Len(detection.vehicles),
         pedestrian_involved |-> detection.incident_type = "PEDESTRIAN_IMPACT",
         description |-> detection.description,
         video_clip_path |-> "None",
         snapshots |-> snapshots,
         bounding_boxes |-> detection.bounding_boxes]

\* IncidentReport(...) of lines 120-127 and 149-161 (batch) or 244-251 and
\* 253-265 (streaming); the timestamp and the snapshot file name (wall clock)
\* are left out, snapshots is the list of saved snapshots
BuildReport(camera_id, detection, snapshots) ==
    LET factors == PipelineFactors(detection)
        severity == calculate_severity(factors).level
    IN  [camera_id |-> camera_id,
         incident_type |-> detection.incident_type,
         severity |-> severity,
         confidence_score |-> detection.confidence,
         vehicles_involved |-> Len(detection.vehicles),
         pedestrian_involved |-> Len(detection.pedestrians) > 0,
         description |-> detection.description,
         video_clip_path |-> "None",
         snapshots |-> snapshots,
         bounding_boxes |-> detection.bounding_boxes]

\* Mutant of BatchFrame: confirms with `>` where the code has `>=`
BatchFrame_StrictThreshold(buffer, camera_id, detection) ==
    IF Qualifies(detection)
    THEN LET appended == Append(buffer, detection)
         IN  IF Len(appended) > consecutive_frames_required
             THEN [buffer |-> <<>>,
                   report |-> <<BuildReport(camera_id, detection, <<"snapshot">>)>>]
             ELSE [buffer |-> appended, report |-> <<>>]
    ELSE [buffer |-> IF buffer # <<>> THEN <<>> ELSE buffer, report |-> <<>>]

\* Mutant of BatchFrame: the report is built from the first buffered hypothesis
BatchFrame_FirstBuffered(buffer, camera_id, detection) ==
    IF Qualifies(detection)
    THEN LET appended == Append(buffer, detection)
         IN  IF Len(appended) >= consecutive_frames_required
             THEN [buffer |-> <<>>,
                   report |-> <<BuildReport(camera_id, appended[1], <<"snapshot">>)>>]
             ELSE [buffer |-> appended, report |-> <<>>]
    ELSE [buffer |-> IF buffer # <<>> THEN <<>> ELSE buffer, report |-> <<>>]

\* the body of the batch loop for one hypothesis (lines 114-175), without the
\* submission: the new buffer and the report appended to `incidents`, if any
BatchFrame(buffer, camera_id, detection) ==
    IF Qualifies(detection)
    THEN LET appended == Append(buffer, detection)
         IN  IF Len(appended) >= consecutive_frames_required
             THEN [buffer |-> <<>>,
                   report |-> <<BuildReport(camera_id, detection, <<"snapshot">>)>>]
             ELSE [buffer |-> appended, report |-> <<>>]
    ELSE [buffer |-> IF buffer # <<>> THEN <<>> ELSE buffer, report |-> <<>>]

\* Mutant of RealtimeFrame: a non-qualifying hypothesis leaves the buffer alone
RealtimeFrame_Grace(buffer, camera_id, detection) ==
    IF Qualifies(detection)
    THEN LET appended == Append(buffer, detection)
         IN  IF Len(appended) >= consecutive_frames_required
             THEN [buffer |-> <<>>,
                   report |-> <<BuildReport(camera_id, detection, <<>>)>>]
             ELSE [buffer |-> appended, report |-> <<>>]
    ELSE [buffer |-> buffer, report |-> <<>>]

\* Mutant of RealtimeFrame: the buffer is not cleared when a report is returned
RealtimeFrame_KeepsAfterEmit(buffer, camera_id, detection) ==
    IF Qualifies(detection)
    THEN LET appended == Append(buffer, detection)
         IN  IF Len(appended) >= consecutive_frames_required
             THEN [buffer |-> appended,
                   report |-> <<BuildReport(camera_id, detection, <<>>)>>]
             ELSE [buffer |-> appended, report |-> <<>>]
    ELSE [buffer |-> <<>>, report |-> <<>>]

\* Mutant of RealtimeFrame: every call starts from an empty buffer
RealtimeFrame_FreshBuffer(buffer, camera_id, detection) ==
    IF Qualifies(detection)
    THEN LET appended == <<detection>>
         IN  IF Len(appended) >= consecutive_frames_required
             THEN [buffer |-> <<>>,
                   report |-> <<BuildReport(camera_id, detection, <<>>)>>]
             ELSE [buffer |-> appended, report |-> <<>>]
    ELSE [buffer |-> <<>>, report |-> <<>>]

\* process_frame_realtime after detect (lines 239-272): the new buffer and
\* the value returned (<<>> is None)
RealtimeFrame(buffer, camera_id, detection) ==
    IF Qualifies(detection)
    THEN LET appended == Append(buffer, detection)
         IN  IF Len(appended) >= consecutive_frames_required
             THEN [buffer |-> <<>>,
                   report |-> <<BuildReport(camera_id, detection, <<>>)>>]
             ELSE [buffer |-> appended, report |-> <<>>]
    ELSE [buffer |-> <<>>, report |-> <<>>]

\* Mutant of submit_incident: the id is appended whatever the response
submit_incident_AlwaysAppends(reported, outcome, accepted) ==
    Append(reported, accepted + 1)

\* _submit_incident(report): the id appended to incidents_reported on a 200
\* response (the API numbers the incidents it accepts), nothing otherwise
submit_incident(reported, outcome, accepted) ==
    IF outcome = "accepted" THEN Append(reported, accepted + 1) ELSE reported

-----------------------------------------------------------------------------
(* History bookkeeping, shared by both entry points *)

\* no frame has been processed since the pipeline was built or the video loaded
NoFrame == [boxes |-> <<>>, qualifies |-> FALSE, report |-> <<>>, before |-> 0,
            submit |-> "none"]

\* no process_video call is running
Idle == [pc |-> "idle", camera_id |-> 0, submit_to_api |-> FALSE,
         frames_left |-> 0, incidents |-> <<>>, posts_at_start |-> 0,
         reported_at_start |-> 0]

Window(s) ==
    IF Len(s) <= TraceLen THEN s ELSE SubSeq(s, Len(s) - TraceLen + 1, Len(s))

\* the history after the hypothesis of `boxes` was processed for camera_id
Record(camera_id, boxes, q, report, submit) ==
    /\ last' = [boxes |-> boxes, qualifies |-> q, report |-> report,
                before |-> since, submit |-> submit]
    /\ since' = IF q /\ report = <<>> THEN Min(since + 1, RunCap) ELSE 0
    /\ hrun' = IF q THEN Min(hrun + 1, RunCap) ELSE 0
    /\ run_emits' = IF q THEN Min(run_emits + Len(report), 2) ELSE 0
    /\ cam_run' = [cam_run EXCEPT ![camera_id] = IF q THEN Min(@ + 1, consecutive_frames_required) ELSE 0]
    /\ trace' = Window(Append(trace, boxes))

-----------------------------------------------------------------------------
(* video_processor.py: VideoProcessor, its capture and its frame generator. *)
(* A native frame is named by its index in the file; a frame rate is a     *)
(* whole number of frames per second; a timestamp k / fps is <<k, fps>>.   *)

\* sample_fps of VideoProcessor.__init__ and of process_video_file
DefaultSampleFps == 5

\* VideoProcessor(sample_fps): no video loaded; current_video is the index of
\* the capture in `captures` (0 is None), video_info is <<>> (None) or <<info>>
VideoProcessor(sample_fps) ==
    [sample_fps |-> sample_fps, current_video |-> 0, video_info |-> <<>>]

\* cv2.VideoCapture(video_path) of a file of total_frames frames at fps
VideoCapture(fps, total_frames) ==
    [fps |-> fps, total_frames |-> total_frames, pos |-> 0, released |-> FALSE]

\* load_video(video_path) on a readable file: the processor and the captures
load_video(processor, caps, fps, total_frames) ==
    [processor |-> [processor EXCEPT
                       !.current_video = Len(caps) + 1,
                       !.video_info = <<[fps |-> fps, total_frames |-> total_frames]>>],
     captures |-> Append(caps, VideoCapture(fps, total_frames))]

\* Mutant of close: the fields are cleared but the capture is not released
close_KeepsCapture(processor, caps) ==
    IF processor.current_video # 0
    THEN [processor |-> [processor EXCEPT !.current_video = 0, !.video_info = <<>>],
          captures |-> caps]
    ELSE [processor |-> processor, captures |-> caps]

\* close(): release the capture, if any, and forget the video
close(processor, caps) ==
    IF processor.current_video # 0
    THEN [processor |-> [processor EXCEPT !.current_video = 0, !.video_info = <<>>],
          captures |-> [caps EXCEPT ![processor.current_video].released = TRUE]]
    ELSE [processor |-> processor, captures |-> caps]

\* `max(1, int(original_fps / self.sample_fps))`: int truncates the quotient
frame_skip(original_fps, sample_fps) ==
    Max(1, original_fps \div sample_fps)

\* no extract_frames generator exists
NoGenerator ==
    [state |-> "none", max_frames |-> 0, original_fps |-> 0, frame_skip |-> 0,
     frame_count |-> 0, extracted_count |-> 0]

\* extract_frames(max_frames): a generator whose body has not started
\* (max_frames 0 is None)
extract_frames(max_frames) ==
    [NoGenerator EXCEPT !.state = "created", !.max_frames = max_frames]

\* FrameData of the native frame `frame` yielded with the counter frame_count
FrameData(frame, frame_count, original_fps) ==
    [frame |-> frame, frame_id |-> frame_count,
     timestamp |-> <<frame_count, original_fps>>, original_fps |-> original_fps]

\* the while loop of lines 132-153 from its top, up to the next yield or to
\* the end of the file: the capture position, the counter and the native
\* frame to yield (<<>> when read() returned no frame)
RECURSIVE ReadLoop(_, _, _, _)
ReadLoop(pos, total_frames, frame_count, skip) ==
    IF pos >= total_frames
    THEN [pos |-> pos, frame_count |-> frame_count, frame |-> <<>>]
    ELSE IF frame_count % skip = 0
         THEN [pos |-> pos + 1, frame_count |-> frame_count, frame |-> <<pos>>]
         ELSE ReadLoop(pos + 1, total_frames, frame_count + 1, skip)

\* the generator gen ends with `state`
Ended(gen, caps, state) ==
    [gen |-> [gen EXCEPT !.state = state], captures |-> caps, out |-> <<>>]

\* the loop is entered by the generator gen: it yields a FrameData (out) and
\* is suspended, or the file is exhausted and it finishes
Loop(gen, processor, caps) ==
    LET cap == caps[processor.current_video]
        r == ReadLoop(cap.pos, cap.total_frames, gen.frame_count, gen.frame_skip)
        read == [caps EXCEPT ![processor.current_video].pos = r.pos]
    IN  IF r.frame = <<>>
        THEN Ended([gen EXCEPT !.frame_count = r.frame_count], read, "finished")
        ELSE [gen |-> [gen EXCEPT !.state = "suspended", !.frame_count = r.frame_count],
              captures |-> read,
              out |-> <<FrameData(r.frame[1], r.frame_count, gen.original_fps)>>]

\* next(gen) on the generator of extract_frames (lines 120-155): a generator
\* that has not started checks that a video is loaded and computes the
\* stride; a suspended one counts the frame it yielded, stops at max_frames,
\* and reads on; reading after close() raises (current_video is None)
Resume(gen, processor, caps) ==
    IF gen.state = "created"
    THEN IF processor.current_video = 0 \/ processor.video_info = <<>>
         THEN Ended(gen, caps, "raised")
         ELSE LET fps == processor.video_info[1].fps
              IN  Loop([gen EXCEPT !.original_fps = fps,
                                   !.frame_skip = frame_skip(fps, processor.sample_fps)],
                       processor, caps)
    ELSE LET counted == [gen EXCEPT !.extracted_count = @ + 1]
         IN  IF counted.max_frames # 0 /\ counted.extracted_count >= counted.max_frames
             THEN Ended(counted, caps, "finished")
             ELSE IF processor.current_video = 0
                  THEN Ended(counted, caps, "raised")
                  ELSE Loop([counted EXCEPT !.frame_count = @ + 1], processor, caps)

\* no process_video_file generator exists
NoFileGenerator ==
    [state |-> "none", sample_fps |-> 0, processor |-> VideoProcessor(0),
     inner |-> NoGenerator, out |-> <<>>]

\* process_video_file(video_path, sample_fps, max_frames): a generator whose
\* body has not started
process_video_file(sample_fps, max_frames) ==
    [NoFileGenerator EXCEPT !.state = "created", !.sample_fps = sample_fps,
                            !.inner = extract_frames(max_frames)]

\* nothing has been extracted since the video was loaded
NoneYet == [calls |-> 0, frames |-> <<>>]

\* a VideoProcessor with sample_fps that has not been used
Unused(sample_fps) ==
    /\ video_processor = VideoProcessor(sample_fps)
    /\ captures = <<>>
    /\ frames_gen = NoGenerator
    /\ file_gen = NoFileGenerator
    /\ yielded = <<>>
    /\ first = NoneYet

-----------------------------------------------------------------------------
(* backend: the tables of models.py the routers write *)

\* the backend after start-up: no incident, no dispatch log, nothing queued
EmptyBackend ==
    /\ db = [incidents |-> <<>>, dispatch_logs |-> <<>>]
    /\ background_tasks = <<>>
    /\ verified = {}

-----------------------------------------------------------------------------
(* The entry points *)

\* no function has been called directly
NoCall == [fn |-> "none", args |-> <<>>, value |-> <<>>]

\* the fields and the history of a pipeline that has processed nothing
Constructed ==
    /\ detection_buffer = <<>>
    /\ incidents_reported = <<>>
    /\ current_video = FALSE
    /\ pv = Idle
    /\ result = [op |-> "none", status |-> "none", value |-> <<>>]
    /\ api = [posts |-> 0, failed |-> 0]
    /\ last = NoFrame
    /\ since = 0
    /\ hrun = 0
    /\ run_emits = 0
    /\ cam_run = [c \in Cameras |-> 0]
    /\ trace = <<>>
    /\ videos = 0

Init ==
    /\ consecutive_frames_required \in 1..MaxN
    /\ confidence_threshold \in ConfidenceThresholds
    /\ Constructed
    /\ call = NoCall
    /\ Unused(DefaultSampleFps)
    /\ EmptyBackend
    /\ scene = <<>>

\* process_frame_realtime(frame, camera_id): detect returns a hypothesis
ProcessFrameRealtime(camera_id, boxes) ==
    /\ pv.pc = "idle"
    /\ LET detection == detect(boxes)
           r == RealtimeFrame(detection_buffer, camera_id, detection)
       IN  /\ detection_buffer' = r.buffer
           /\ result' = [op |-> "rt", status |-> "returned", value |-> r.report]
           /\ Record(camera_id, boxes, Qualifies(detection), r.report, "none")
    /\ UNCHANGED <<scene, video, backend, call, config, incidents_reported, current_video, pv, api, videos>>

\* process_frame_realtime(frame, camera_id): the inference call raises at
\* line 237 and the exception leaves the method
ProcessFrameRealtimeRaises(camera_id) ==
    /\ pv.pc = "idle"
    /\ result' = [op |-> "rt", status |-> "detector_raised", value |-> <<>>]
    /\ UNCHANGED <<scene, video, backend, call, config, detection_buffer, incidents_reported, current_video,
                   pv, api, last, since, hrun, run_emits, cam_run, trace, videos>>

\* process_video: load_video raises ValueError (line 104), before anything
\* of the pipeline is touched
ProcessVideoLoadFails ==
    /\ pv.pc = "idle"
    /\ videos < MaxVideos
    /\ videos' = videos + 1
    /\ result' = [op |-> "pv", status |-> "source_raised", value |-> <<>>]
    /\ UNCHANGED <<scene, video, backend, call, config, detection_buffer, incidents_reported, current_video,
                   pv, api, last, since, hrun, run_emits, cam_run, trace>>

\* process_video up to the loop (lines 94-109): the video is loaded, the
\* list of incidents and the buffer start empty
ProcessVideoStart(camera_id, submit_to_api, nframes) ==
    /\ pv.pc = "idle"
    /\ videos < MaxVideos
    /\ videos' = videos + 1
    /\ current_video' = TRUE
    /\ detection_buffer' = <<>>
    /\ pv' = [pc |-> "loop", camera_id |-> camera_id,
              submit_to_api |-> submit_to_api, frames_left |-> nframes,
              incidents |-> <<>>, posts_at_start |-> api.posts,
              reported_at_start |-> Len(incidents_reported)]
    /\ result' = [op |-> "pv", status |-> "running", value |-> <<>>]
    /\ last' = NoFrame
    /\ since' = 0
    /\ hrun' = 0
    /\ run_emits' = 0
    /\ cam_run' = [cam_run EXCEPT ![camera_id] = 0]
    /\ UNCHANGED <<scene, video, backend, call, config, incidents_reported, api, trace>>

\* one iteration of the loop of process_video (lines 110-175), the submission
\* of line 168 included
ProcessVideoFrame(boxes, outcome) ==
    /\ pv.pc = "loop"
    /\ pv.frames_left > 0
    /\ LET detection == detect(boxes)
           r == BatchFrame(detection_buffer, pv.camera_id, detection)
           submits == r.report # <<>> /\ pv.submit_to_api
       IN  /\ submits \/ outcome = "accepted"
           /\ detection_buffer' = r.buffer
           /\ pv' = [pv EXCEPT !.frames_left = @ - 1,
                               !.incidents = @ \o r.report]
           /\ api' = IF submits
                     THEN [posts |-> api.posts + 1,
                           failed |-> api.failed
                                      + (IF outcome = "accepted" THEN 0 ELSE 1)]
                     ELSE api
           /\ incidents_reported' =
                 IF submits
                 THEN submit_incident(incidents_reported, outcome,
                                      api.posts - api.failed)
                 ELSE incidents_reported
           /\ Record(pv.camera_id, boxes, Qualifies(detection), r.report,
                     IF submits THEN outcome ELSE "none")
    /\ UNCHANGED <<scene, video, backend, call, config, current_video, result, videos>>

\* one iteration of the loop of process_video where the inference call of
\* line 111 raises: the finally clause closes the video and the exception
\* leaves process_video
ProcessVideoFrameRaises ==
    /\ pv.pc = "loop"
    /\ pv.frames_left > 0
    /\ current_video' = FALSE
    /\ pv' = Idle
    /\ result' = [op |-> "pv", status |-> "detector_raised", value |-> <<>>]
    /\ UNCHANGED <<scene, video, backend, call, config, detection_buffer, incidents_reported, api, last,
                   since, hrun, run_emits, cam_run, trace, videos>>

\* the frames are exhausted: close the video and return the incidents
\* (lines 177-181)
ProcessVideoReturn ==
    /\ pv.pc = "loop"
    /\ pv.frames_left = 0
    /\ current_video' = FALSE
    /\ pv' = Idle
    /\ result' = [op |-> "pv", status |-> "returned", value |-> pv.incidents]
    /\ UNCHANGED <<scene, video, backend, call, config, detection_buffer, incidents_reported, api, last,
                   since, hrun, run_emits, cam_run, trace, videos>>

Next ==
    \/ \E c \in Cameras, boxes \in Scenes : ProcessFrameRealtime(c, boxes)
    \/ \E c \in Cameras : ProcessFrameRealtimeRaises(c)
    \/ ProcessVideoLoadFails
    \/ \E c \in Cameras, s \in BOOLEAN, n \in 0..MaxFrames : ProcessVideoStart(c, s, n)
    \/ \E boxes \in Scenes, o \in SubmitOutcomes : ProcessVideoFrame(boxes, o)
    \/ ProcessVideoFrameRaises
    \/ ProcessVideoReturn

Spec == Init /\ [][Next]_vars

-----------------------------------------------------------------------------
(* Direct calls of the detector's functions: _classify_incident on the      *)
(* vehicle and pedestrian lists of a frame, _calculate_iou on two boxes     *)

\* vehicle boxes.  SquareA and SquareB overlap with IoU 2500/17500; LongA and
\* LongB with IoU 6000/20000, exactly 0.3; Tall07 has aspect ratio exactly 0.7
\* and Wide107 exactly 1/0.7; Lone overlaps nothing and has aspect ratio 0.6;
\* BesideWalker has its centre at (120, 110) and aspect ratio 1.5
SquareA == <<0, 0, 100, 100>>
SquareB == <<50, 50, 150, 150>>
LongA == <<0, 0, 130, 100>>
LongB == <<70, 0, 200, 100>>
Tall07 == <<300, 0, 370, 100>>
Wide107 == <<0, 300, 100, 370>>
Lone == <<600, 600, 660, 700>>
BesideWalker == <<60, 70, 180, 150>>

\* pedestrian boxes.  Walker has its centre at (100, 100) and, with
\* BesideWalker, an average width of 80; Bystander stands 70 pixels from the
\* centre of Lone (average width 45) and far from every other vehicle
Walker == <<80, 50, 120, 150>>
Bystander == <<685, 600, 715, 700>>

\* the vehicles detect can hand to _classify_incident
VehicleDetections ==
    { DetectionResult(YoloBox(2, 90, SquareA)),
      DetectionResult(YoloBox(7, 80, SquareB)),
      DetectionResult(YoloBox(2, 70, LongA)),
      DetectionResult(YoloBox(5, 75, LongB)),
      DetectionResult(YoloBox(3, 60, Tall07)),
      DetectionResult(YoloBox(2, 85, Wide107)),
      DetectionResult(YoloBox(2, 95, Lone)),
      DetectionResult(YoloBox(7, 55, BesideWalker)) }

\* the pedestrians detect can hand to _classify_incident
PedestrianDetections ==
    { DetectionResult(YoloBox(0, 85, Walker)),
      DetectionResult(YoloBox(0, 98, Bystander)) }

\* a frame holds at most MaxVehicles vehicles and MaxPedestrians pedestrians
MaxVehicles == 4
MaxPedestrians == 2
\* the boxes given to _calculate_iou have their corners in 0..MaxCoord
MaxCoord == 3

VehicleLists == UNION {[1..n -> VehicleDetections] : n \in 0..MaxVehicles}
PedestrianLists == UNION {[1..n -> PedestrianDetections] : n \in 0..MaxPedestrians}

\* integer boxes (x1, y1, x2, y2) with x1 < x2 and y1 < y2
GridBoxes ==
    {b \in (0..MaxCoord) \X (0..MaxCoord) \X (0..MaxCoord) \X (0..MaxCoord) :
        b[1] < b[3] /\ b[2] < b[4]}

\* a frame holds at most MaxBoxes YOLO boxes
MaxBoxes == 4

\* the boxes YOLO can return for a frame.  SquareA and LongA overlap with IoU
\* 10000/13000, SquareA and SquareB with 2500/17500, LongA and SquareB with
\* 4000/19000; Walker is close to all three and far from Lone; Bystander is
\* close to Lone only.  The bus is exactly at the detector floor, the second
\* car on Lone is under it
YoloBoxes ==
    { YoloBox(2, 90, SquareA),
      YoloBox(7, 85, LongA),
      YoloBox(5, 50, SquareB),
      YoloBox(2, 70, Lone),
      YoloBox(2, 45, Lone),
      YoloBox(0, 85, Walker),
      YoloBox(0, 60, Bystander) }

\* results.boxes of a frame
YoloFrames == UNION {[1..n -> YoloBoxes] : n \in 0..MaxBoxes}

\* a call that has not returned yet
Pending(fn, args) == [fn |-> fn, args |-> args, value |-> <<>>]

\* a default pipeline (consecutive_frames_required 3, confidence_threshold
\* 0.85) stays untouched while its detector is called directly
InitDetector ==
    /\ consecutive_frames_required = 3
    /\ confidence_threshold = 85
    /\ Constructed
    /\ Unused(DefaultSampleFps)
    /\ EmptyBackend
    /\ scene = <<>>
    /\ \/ \E v \in VehicleLists, p \in PedestrianLists :
             call = Pending("_classify_incident", <<v, p>>)
       \/ \E a \in GridBoxes, b \in GridBoxes :
             call = Pending("_calculate_iou", <<a, b>>)
       \/ \E boxes \in YoloFrames :
             call = Pending("detect", <<boxes>>)

\* _classify_incident(vehicles, pedestrians, frame_shape) returns
ClassifyIncident ==
    /\ call.fn = "_classify_incident"
    /\ call.value = <<>>
    /\ call' = [call EXCEPT !.value = <<classify_incident(call.args[1], call.args[2])>>]
    /\ UNCHANGED <<pipeline, video, backend, scene>>

\* _calculate_iou(bbox1, bbox2) returns
CalculateIou ==
    /\ call.fn = "_calculate_iou"
    /\ call.value = <<>>
    /\ call' = [call EXCEPT !.value = <<calculate_iou(call.args[1], call.args[2])>>]
    /\ UNCHANGED <<pipeline, video, backend, scene>>

\* detect(frame, frame_id) returns, for a frame whose YOLO output is the argument
Detect ==
    /\ call.fn = "detect"
    /\ call.value = <<>>
    /\ call' = [call EXCEPT !.value = <<detect(call.args[1])>>]
    /\ UNCHANGED <<pipeline, video, backend, scene>>

NextDetector ==
    \/ ClassifyIncident
    \/ CalculateIou
    \/ Detect

SpecDetector == InitDetector /\ [][NextDetector]_vars

-----------------------------------------------------------------------------
(* Direct calls of the scorer: SeverityScorer().calculate_severity(factors) *)
(* and the module-level calculate_severity with keyword arguments          *)

\* vehicle_count ranges over 0..MaxVehicleCount
MaxVehicleCount == 4

\* detection confidences: 0.0 (the dataclass default), values on both sides
\* of 0.5, the two defaults 0.8 and 0.85, 1.0 and a value min() cuts to 1.0
ConfidenceInputs == {Conf(p) : p \in {0, 30, 50, 80, 85, 100, 120}}

\* estimated_speed: None (0), and the two sides of the 60 km/h test
SpeedInputs == {0, 60, 61}

DensityInputs == {"low", "normal", "high"}

\* the SeverityFactors bundles given to the scorer
FactorInputs ==
    [vehicle_count : 0..MaxVehicleCount,
     pedestrian_involved : BOOLEAN,
     is_rollover : BOOLEAN,
     is_multi_vehicle : BOOLEAN,
     fire_smoke_detected : BOOLEAN,
     estimated_speed : SpeedInputs,
     detection_confidence : ConfidenceInputs,
     traffic_density : DensityInputs]

\* a keyword argument is left out (<<>>) or passed (<<value>>)
Optional(S) == {<<>>} \cup {<<x>> : x \in S}

\* the keyword arguments of a call: the arguments that are passed
Keyword(name, opt) == IF opt = <<>> THEN <<>> ELSE name :> opt[1]
Kwargs(vc, ped, roll, multi, fire, conf) ==
    Keyword("vehicle_count", vc) @@ Keyword("pedestrian_involved", ped)
    @@ Keyword("is_rollover", roll) @@ Keyword("is_multi_vehicle", multi)
    @@ Keyword("fire_smoke", fire) @@ Keyword("confidence", conf)

InitScorer ==
    /\ consecutive_frames_required = 3
    /\ confidence_threshold = 85
    /\ Constructed
    /\ Unused(DefaultSampleFps)
    /\ EmptyBackend
    /\ scene = <<>>
    /\ \/ \E f \in FactorInputs :
             call = Pending("SeverityScorer.calculate_severity", <<f>>)
       \/ \E vc \in Optional(0..MaxVehicleCount), ped \in Optional(BOOLEAN),
             roll \in Optional(BOOLEAN), multi \in Optional(BOOLEAN),
             fire \in Optional(BOOLEAN), conf \in Optional(ConfidenceInputs) :
             call = Pending("calculate_severity",
                            <<Kwargs(vc, ped, roll, multi, fire, conf)>>)

\* SeverityScorer().calculate_severity(factors) returns
CalculateSeverity ==
    /\ call.fn = "SeverityScorer.calculate_severity"
    /\ call.value = <<>>
    /\ call' = [call EXCEPT !.value = <<calculate_severity(call.args[1])>>]
    /\ UNCHANGED <<pipeline, video, backend, scene>>

\* the module-level calculate_severity with keyword arguments returns
ConvenienceCalculateSeverity ==
    /\ call.fn = "calculate_severity"
    /\ call.value = <<>>
    /\ call' = [call EXCEPT !.value = <<convenience_calculate_severity(call.args[1])>>]
    /\ UNCHANGED <<pipeline, video, backend, scene>>

NextScorer ==
    \/ CalculateSeverity
    \/ ConvenienceCalculateSeverity

SpecScorer == InitScorer /\ [][NextScorer]_vars

-----------------------------------------------------------------------------
(* The backend: the routers incidents.py and dispatch.py over the tables of *)
(* models.py.  A handler is an operator from the request and the database  *)
(* to the status code, the database after the commit and the tasks queued. *)

MaxIncidents == 1
MaxDispatchLogs == 1

SeverityLevel == {"LOW", "MEDIUM", "HIGH", "CRITICAL"}
IncidentStatus == {"DETECTED", "VERIFIED", "REPORTED", "DISPATCHED", "CLOSED", "FALSE_ALARM"}

\* the rows of the cameras, police_stations and ambulance_providers tables
CameraTable == {1}
PoliceStationTable == {1}
AmbulanceProviderTable == <<[id |-> 1, is_active |-> FALSE], [id |-> 2, is_active |-> TRUE]>>

\* who calls the operator endpoints
Operators == {"operator-7"}

\* Incident(..., status=IncidentStatus.DETECTED): verified_by <<>> is None
Incident(camera_id) ==
    [camera_id |-> camera_id, status |-> "DETECTED", verified_by |-> <<>>]

DispatchLog(incident_id, service_type, provider_id, status, requested_by) ==
    [incident_id |-> incident_id, service_type |-> service_type,
     provider_id |-> provider_id, status |-> status, requested_by |-> requested_by]

\* `raise HTTPException(status_code=...)`: nothing is committed, nothing queued
HTTPException(status_code, d) ==
    [status_code |-> status_code, db |-> d, tasks |-> <<>>]

\* a handler returns after committing d
Ok(d, tasks) ==
    [status_code |-> 200, db |-> d, tasks |-> tasks]

\* db.query(Incident).filter(Incident.id == incident_id).first() found a row
Found(d, incident_id) ==
    incident_id \in DOMAIN d.incidents

\* the incident row with one column assigned
SetIncident(d, incident_id, column, value) ==
    [d EXCEPT !.incidents[incident_id][column] = value]

\* create_incident (POST /incidents/), what the ML engine calls
create_incident(request, d) ==
    IF request.camera_id \notin CameraTable
    THEN HTTPException(404, d)
    ELSE Ok([d EXCEPT !.incidents = Append(@, Incident(request.camera_id))], <<>>)

\* update_incident (PATCH /incidents/{id}): every field that is set in the
\* IncidentUpdate is assigned (status and verified_by are <<>> when unset)
update_incident(request, d) ==
    IF ~Found(d, request.incident_id)
    THEN HTTPException(404, d)
    ELSE LET s == IF request.status # <<>>
                  THEN SetIncident(d, request.incident_id, "status", request.status[1])
                  ELSE d
             v == IF request.verified_by # <<>>
                  THEN SetIncident(s, request.incident_id, "verified_by", request.verified_by)
                  ELSE s
         IN  Ok(v, <<>>)

\* verify_incident (POST /incidents/{id}/verify)
verify_incident(request, d) ==
    IF ~Found(d, request.incident_id)
    THEN HTTPException(404, d)
    ELSE Ok(SetIncident(SetIncident(d, request.incident_id, "status", "VERIFIED"),
                        request.incident_id, "verified_by", <<request.verified_by>>),
            <<>>)

\* mark_false_alarm (POST /incidents/{id}/false-alarm)
mark_false_alarm(request, d) ==
    IF ~Found(d, request.incident_id)
    THEN HTTPException(404, d)
    ELSE Ok(SetIncident(SetIncident(d, request.incident_id, "status", "FALSE_ALARM"),
                        request.incident_id, "verified_by", <<request.marked_by>>),
            <<>>)

\* close_incident (POST /incidents/{id}/close)
close_incident(request, d) ==
    IF ~Found(d, request.incident_id)
    THEN HTTPException(404, d)
    ELSE Ok(SetIncident(d, request.incident_id, "status", "CLOSED"), <<>>)

\* send_report_to_police (POST /dispatch/send-police-report)
send_report_to_police(request, d) ==
    IF ~Found(d, request.incident_id)
    THEN HTTPException(404, d)
    ELSE IF d.incidents[request.incident_id].status = "DETECTED"
    THEN HTTPException(400, d)
    ELSE IF request.police_station_id \notin PoliceStationTable
    THEN HTTPException(404, d)
    ELSE LET log == DispatchLog(request.incident_id, "POLICE",
                                request.police_station_id, "REQUESTED", "operator")
             reported == SetIncident(d, request.incident_id, "status", "REPORTED")
         IN  Ok([reported EXCEPT !.dispatch_logs = Append(@, log)],
                IF request.send_method = "email"
                THEN <<[task |-> "send_police_report",
                        incident_id |-> request.incident_id]>>
                ELSE <<>>)

\* the provider of lines 216-225: the one asked for (0 is None), else the
\* first active one; <<>> when there is none
Provider(provider_id) ==
    LET rows == IF provider_id # 0
                THEN SelectSeq(AmbulanceProviderTable, LAMBDA p : p.id = provider_id)
                ELSE SelectSeq(AmbulanceProviderTable, LAMBDA p : p.is_active)
    IN  IF rows = <<>> THEN <<>> ELSE <<rows[1]>>

\* Mutant of dispatch_ambulance_service: the confirmation is not required
dispatch_ambulance_service_Unconfirmed(request, d) ==
    IF ~Found(d, request.incident_id)
    THEN HTTPException(404, d)
    ELSE IF d.incidents[request.incident_id].camera_id \notin CameraTable
    THEN HTTPException(404, d)
    ELSE IF Provider(request.provider_id) = <<>>
    THEN HTTPException(404, d)
    ELSE LET provider == Provider(request.provider_id)[1]
             log == DispatchLog(request.incident_id, "AMBULANCE", provider.id,
                                "DISPATCHED", request.operator_id)
             dispatched == SetIncident(d, request.incident_id, "status", "DISPATCHED")
         IN  Ok([dispatched EXCEPT !.dispatch_logs = Append(@, log)],
                <<[task |-> "dispatch_ambulance", incident_id |-> request.incident_id]>>)

\* dispatch_ambulance_service (POST /dispatch/ambulance)
dispatch_ambulance_service(request, d) ==
    IF ~request.confirmed
    THEN HTTPException(400, d)
    ELSE IF ~Found(d, request.incident_id)
    THEN HTTPException(404, d)
    ELSE IF d.incidents[request.incident_id].camera_id \notin CameraTable
    THEN HTTPException(404, d)
    ELSE IF Provider(request.provider_id) = <<>>
    THEN HTTPException(404, d)
    ELSE LET provider == Provider(request.provider_id)[1]
             log == DispatchLog(request.incident_id, "AMBULANCE", provider.id,
                                "DISPATCHED", request.operator_id)
             dispatched == SetIncident(d, request.incident_id, "status", "DISPATCHED")
         IN  Ok([dispatched EXCEPT !.dispatch_logs = Append(@, log)],
                <<[task |-> "dispatch_ambulance", incident_id |-> request.incident_id]>>)

\* SeverityScorer.should_auto_dispatch_ambulance(severity)
should_auto_dispatch_ambulance(severity) ==
    severity \in {"HIGH", "CRITICAL"}

\* the handler answered the request with r
Respond(op, request, r) ==
    /\ Len(r.db.incidents) <= MaxIncidents
    /\ Len(r.db.dispatch_logs) <= MaxDispatchLogs
    /\ db' = r.db
    /\ background_tasks' = background_tasks \o r.tasks
    /\ call' = [fn |-> op, args |-> <<request>>, value |-> <<r.status_code>>]
    /\ verified' = verified \cup {i \in DOMAIN r.db.incidents :
                                     r.db.incidents[i].status = "VERIFIED"}
    /\ UNCHANGED <<pipeline, video, scene>>

CreateIncident(camera_id) ==
    /\ LET request == [camera_id |-> camera_id]
       IN  Respond("create_incident", request, create_incident(request, db))

UpdateIncident(incident_id, status, by) ==
    /\ LET request == [incident_id |-> incident_id, status |-> status, verified_by |-> by]
       IN  Respond("update_incident", request, update_incident(request, db))

VerifyIncident(incident_id, by) ==
    /\ LET request == [incident_id |-> incident_id, verified_by |-> by]
       IN  Respond("verify_incident", request, verify_incident(request, db))

MarkFalseAlarm(incident_id, by) ==
    /\ LET request == [incident_id |-> incident_id, marked_by |-> by]
       IN  Respond("mark_false_alarm", request, mark_false_alarm(request, db))

CloseIncident(incident_id, by) ==
    /\ LET request == [incident_id |-> incident_id, closed_by |-> by]
       IN  Respond("close_incident", request, close_incident(request, db))

SendReportToPolice(incident_id, police_station_id, send_method) ==
    /\ LET request == [incident_id |-> incident_id,
                    police_station_id |-> police_station_id,
                    send_method |-> send_method]
       IN  Respond("send_report_to_police", request, send_report_to_police(request, db))

DispatchAmbulanceService(incident_id, provider_id, operator_id, confirmed) ==
    /\ LET request == [incident_id |-> incident_id, provider_id |-> provider_id,
                    operator_id |-> operator_id, confirmed |-> confirmed]
       IN  Respond("dispatch_ambulance_service", request,
                dispatch_ambulance_service(request, db))

\* the severity policy is asked whether a severity warrants an ambulance prompt
ShouldAutoDispatchAmbulance(severity) ==
    /\ call' = [fn |-> "should_auto_dispatch_ambulance", args |-> <<severity>>,
                value |-> <<should_auto_dispatch_ambulance(severity)>>]
    /\ UNCHANGED <<pipeline, video, backend, scene>>

\* a default pipeline stays untouched beside the backend
InitBackend ==
    /\ consecutive_frames_required = 3
    /\ confidence_threshold = 85
    /\ Constructed
    /\ call = NoCall
    /\ Unused(DefaultSampleFps)
    /\ EmptyBackend
    /\ scene = <<>>

NextBackend ==
    \/ \E c \in {0, 1} : CreateIncident(c)
    \/ \E i \in 1..MaxIncidents, s \in Optional(IncidentStatus), by \in Optional(Operators) :
          UpdateIncident(i, s, by)
    \/ \E i \in 1..MaxIncidents, by \in Operators : VerifyIncident(i, by)
    \/ \E i \in 1..MaxIncidents, by \in Operators : MarkFalseAlarm(i, by)
    \/ \E i \in 1..MaxIncidents, by \in Operators : CloseIncident(i, by)
    \/ \E i \in 1..MaxIncidents, p \in {1, 2}, m \in {"email", "download"} :
          SendReportToPolice(i, p, m)
    \/ \E i \in 1..MaxIncidents, p \in {0, 3}, o \in Operators, c \in BOOLEAN :
          DispatchAmbulanceService(i, p, o, c)
    \/ \E s \in SeverityLevel : ShouldAutoDispatchAmbulance(s)

SpecBackend == InitBackend /\ [][NextBackend]_vars

-----------------------------------------------------------------------------
(* The video processor used directly (load_video, extract_frames, close),   *)
(* through process_video_file, and by process_video                         *)

MaxTotalFrames == 9

\* the frame rates of the files, the sampling rates asked for, the lengths
\* of the files and the max_frames arguments (0 is None)
NativeFps == {24, 30}
SampleFps == {DefaultSampleFps, 10, 60}
TotalFrames == {0, 1, MaxTotalFrames}
MaxFramesArgs == {0, 1, 2}

\* The three users of a VideoProcessor (a caller of its methods, the
\* generator of process_video_file, the pipeline) each have their own
\* instance and share no state, so a behaviour follows one of them.
\* the caller has not used its processor, nor the pipeline its own
DirectUnused ==
    /\ video_processor.current_video = 0
    /\ frames_gen.state = "none"
    /\ first = NoneYet
    /\ result.op = "none"

\* process_video_file has not been called, nor the pipeline
FileUnused ==
    /\ file_gen.state = "none"
    /\ result.op = "none"

\* neither the caller nor process_video_file has used a processor
PipelineOnly ==
    /\ video_processor.current_video = 0
    /\ frames_gen.state = "none"
    /\ first = NoneYet
    /\ file_gen.state = "none"

\* processor.load_video(video_path) returns the VideoInfo
LoadVideo(fps, total_frames) ==
    /\ FileUnused
    /\ videos < MaxVideos
    /\ videos' = videos + 1
    /\ LET r == load_video(video_processor, captures, fps, total_frames)
       IN  /\ video_processor' = r.processor
           /\ captures' = r.captures
    /\ first' = NoneYet
    /\ UNCHANGED <<frames_gen, file_gen, yielded, backend, scene, call, config,
                   detection_buffer, incidents_reported, current_video, pv,
                   result, api, last, since, hrun, run_emits, cam_run, trace>>

\* gen = processor.extract_frames(max_frames): a new generator, the one
\* before it is dropped
ExtractFrames(max_frames) ==
    /\ FileUnused
    /\ frames_gen' = extract_frames(max_frames)
    /\ yielded' = <<>>
    /\ UNCHANGED <<video_processor, captures, file_gen, first, backend, scene, call, pipeline>>

\* next(gen): the generator runs to its next yield, to its end or to an error
NextFrame ==
    /\ FileUnused
    /\ frames_gen.state \in {"created", "suspended"}
    /\ LET r == Resume(frames_gen, video_processor, captures)
       IN  /\ frames_gen' = r.gen
           /\ captures' = r.captures
           /\ yielded' = yielded \o r.out
           /\ first' = LET starts == /\ frames_gen.state = "created"
                                      /\ r.gen.state # "raised"
                           calls == IF starts THEN Min(first.calls + 1, 2)
                                    ELSE first.calls
                       IN  [calls |-> calls,
                            frames |-> IF calls = 1 THEN first.frames \o r.out
                                       ELSE first.frames]
    /\ UNCHANGED <<video_processor, file_gen, backend, scene, call, pipeline>>

\* processor.close()
Close ==
    /\ FileUnused
    /\ LET r == close(video_processor, captures)
       IN  /\ video_processor' = r.processor
           /\ captures' = r.captures
    /\ UNCHANGED <<frames_gen, file_gen, yielded, first, backend, scene, call, pipeline>>

\* g = process_video_file(video_path, sample_fps, max_frames)
ProcessVideoFile(sample_fps, max_frames) ==
    /\ DirectUnused
    /\ file_gen.state \notin {"created", "suspended"}
    /\ videos < MaxVideos
    /\ file_gen' = process_video_file(sample_fps, max_frames)
    /\ UNCHANGED <<video_processor, captures, frames_gen, yielded, first,
                   backend, scene, call, pipeline>>

\* the body of process_video_file after extract_frames was resumed with r:
\* it yields what extract_frames yielded, or leaves the with block, whose
\* __exit__ closes the processor
FileStep(gen, r) ==
    IF r.gen.state = "suspended"
    THEN [file |-> [gen EXCEPT !.state = "suspended", !.inner = r.gen,
                               !.out = @ \o r.out],
          captures |-> r.captures]
    ELSE LET c == close(gen.processor, r.captures)
         IN  [file |-> [gen EXCEPT !.state = IF r.gen.state = "finished"
                                             THEN "exhausted" ELSE "raised",
                                   !.inner = r.gen, !.processor = c.processor],
              captures |-> c.captures]

\* the first next(g): the processor is built, the video loaded (or
\* load_video raises and the with block is left) and the first frame read
FileStart(fps, total_frames, readable) ==
    /\ DirectUnused
    /\ file_gen.state = "created"
    /\ videos < MaxVideos
    /\ videos' = videos + 1
    /\ LET built == [file_gen EXCEPT !.processor = VideoProcessor(file_gen.sample_fps)]
           l == load_video(built.processor, captures, fps, total_frames)
           loaded == [built EXCEPT !.processor = l.processor]
           s == FileStep(loaded, Resume(loaded.inner, loaded.processor, l.captures))
       IN  IF readable
           THEN file_gen' = s.file /\ captures' = s.captures
           ELSE /\ file_gen' = [built EXCEPT
                                   !.state = "raised",
                                   !.processor = close(built.processor, captures).processor]
                /\ captures' = close(built.processor, captures).captures
    /\ UNCHANGED <<video_processor, frames_gen, yielded, first, backend, scene, call,
                   config, detection_buffer, incidents_reported, current_video,
                   pv, result, api, last, since, hrun, run_emits, cam_run, trace>>

\* a later next(g)
FileNext ==
    /\ DirectUnused
    /\ file_gen.state = "suspended"
    /\ LET s == FileStep(file_gen, Resume(file_gen.inner, file_gen.processor, captures))
       IN  file_gen' = s.file /\ captures' = s.captures
    /\ UNCHANGED <<video_processor, frames_gen, yielded, first, backend, scene, call, pipeline>>

\* g is abandoned: the interpreter closes it, which raises GeneratorExit at
\* the yield it is suspended at, inside the with block; a generator that
\* never started has nothing to leave
FileAbandon ==
    /\ DirectUnused
    /\ file_gen.state \in {"created", "suspended"}
    /\ LET c == IF file_gen.state = "suspended"
                THEN close(file_gen.processor, captures)
                ELSE [processor |-> file_gen.processor, captures |-> captures]
       IN  /\ file_gen' = [file_gen EXCEPT
                              !.state = "closed", !.processor = c.processor,
                              !.inner = [@ EXCEPT !.state = IF @ = "suspended"
                                                            THEN "closed" ELSE @]]
           /\ captures' = c.captures
    /\ UNCHANGED <<video_processor, frames_gen, yielded, first, backend, scene, call, pipeline>>

\* a default pipeline and a VideoProcessor built with sample_fps
InitVideo ==
    /\ consecutive_frames_required = 3
    /\ confidence_threshold = 85
    /\ Constructed
    /\ call = NoCall
    /\ \E sample_fps \in SampleFps : Unused(sample_fps)
    /\ EmptyBackend
    /\ scene = <<>>

NextVideo ==
    \/ \E f \in NativeFps, t \in TotalFrames : LoadVideo(f, t)
    \/ \E m \in MaxFramesArgs : ExtractFrames(m)
    \/ NextFrame
    \/ Close
    \/ \E s \in SampleFps, m \in MaxFramesArgs : ProcessVideoFile(s, m)
    \/ \E f \in NativeFps, t \in TotalFrames, r \in BOOLEAN : FileStart(f, t, r)
    \/ FileNext
    \/ FileAbandon
    \/ PipelineOnly /\ ProcessVideoLoadFails
    \/ PipelineOnly /\ \E n \in 0..MaxFrames : ProcessVideoStart(1, FALSE, n)
    \/ PipelineOnly /\ \E boxes \in Scenes : ProcessVideoFrame(boxes, "accepted")
    \/ PipelineOnly /\ ProcessVideoFrameRaises
    \/ PipelineOnly /\ ProcessVideoReturn

SpecVideo == InitVideo /\ [][NextVideo]_vars

-----------------------------------------------------------------------------
(* The pipeline in front of one scene: every frame it is given has the same *)
(* YOLO output, drawn when the camera is pointed at the scene               *)

\* confidence_threshold values, in hundredths: the default, run_demo's and a
\* stricter one
SceneThresholds == ConfidenceThresholds \cup {90}

\* the YOLO output of a scene: non-maximum suppression leaves no box twice
SceneFrames ==
    {boxes \in YoloFrames :
        \A i, j \in 1..Len(boxes) : boxes[i] = boxes[j] => i = j}

\* process_frame_realtime on a frame of the scene
WatchFrame ==
    /\ scene # <<>>
    /\ ProcessFrameRealtime(1, scene[1])

\* process_video on a recording of the scene, MaxFrames sampled frames long
WatchVideoStart ==
    /\ scene # <<>>
    /\ ProcessVideoStart(1, FALSE, MaxFrames)

\* one iteration of the loop of process_video on the recording
WatchVideoFrame ==
    /\ scene # <<>>
    /\ ProcessVideoFrame(scene[1], "accepted")

\* the recording is exhausted
WatchVideoReturn ==
    /\ scene # <<>>
    /\ ProcessVideoReturn

InitFrames ==
    /\ consecutive_frames_required \in 1..MaxN
    /\ confidence_threshold \in SceneThresholds
    /\ Constructed
    /\ call = NoCall
    /\ Unused(DefaultSampleFps)
    /\ EmptyBackend
    /\ \E boxes \in SceneFrames : scene = <<boxes>>

NextFrames ==
    \/ WatchFrame
    \/ WatchVideoStart
    \/ WatchVideoFrame
    \/ WatchVideoReturn

SpecFrames == InitFrames /\ [][NextFrames]_vars

-----------------------------------------------------------------------------
(* Properties *)

N == consecutive_frames_required

\* the last processed frame produced a report
Emitted == last.report # <<>>

\* every report the pipeline holds or has just handed out
Reports ==
    {last.report[i] : i \in 1..Len(last.report)}
    \cup {pv.incidents[i] : i \in 1..Len(pv.incidents)}
    \cup {result.value[i] : i \in 1..Len(result.value)}

\* C1: from an empty buffer, N consecutive qualifying hypotheses (batch or
\* streaming) give exactly one report, emitted while the N-th is processed:
\* while the run is at most N long, the frame just processed produced a
\* report exactly if it is the N-th of the run, and the run has produced no
\* report before it.
C1_ExactlyOneReportAtNthFrame ==
    (last.qualifies /\ hrun <= N) =>
        /\ Emitted <=> hrun = N
        /\ run_emits = IF hrun = N THEN 1 ELSE 0

\* C1 witness: a batch run with N = 3 whose third qualifying frame confirmed
C1_Witness ==
    /\ N = 3 /\ pv.pc = "loop" /\ hrun = 3 /\ Emitted
    /\ Len(pv.incidents) = 1 /\ run_emits = 1

\* C2: an uninterrupted run of qualifying frames, however long, produces at
\* most one report.
C2_AtMostOneReportPerRun ==
    run_emits <= 1

\* C3: a non-qualifying hypothesis leaves the buffer empty whatever it held,
\* and a report is only ever produced by a frame that ends at least N
\* consecutive qualifying hypotheses counted from the last break or reset.
C3_BreakClearsAndRestarts ==
    /\ (last.boxes # <<>> /\ ~last.qualifies) => detection_buffer = <<>>
    /\ Emitted => hrun >= N

\* C3 witness: a non-qualifying frame arrived on a partial run of N-1 = 2
\* hypotheses and the buffer is empty
C3_Witness ==
    /\ N = 3 /\ last.boxes # <<>> /\ ~last.qualifies /\ last.before = 2
    /\ detection_buffer = <<>>

\* C4: after every processed frame the buffer holds at most N-1 hypotheses,
\* all qualifying; they are the hypotheses of the most recent frames, as many
\* as qualified since the last break, reset or emission; and the buffer is
\* empty right after an emission.
C4_BufferIsTheCurrentRun ==
    /\ Len(detection_buffer) <= N - 1
    /\ \A i \in 1..Len(detection_buffer) : Qualifies(detection_buffer[i])
    /\ Len(detection_buffer) = since
    /\ Len(detection_buffer) <= Len(trace)
    /\ \A i \in 1..Len(detection_buffer) :
          detection_buffer[i] =
              detect(trace[Len(trace) - Len(detection_buffer) + i])
    /\ Emitted => detection_buffer = <<>>

\* C4 witness: a buffer of N-1 = 2 hypotheses of different incident types
C4_Witness ==
    /\ N = 3 /\ Len(detection_buffer) = 2
    /\ detection_buffer[1].incident_type # detection_buffer[2].incident_type

\* C5: a report carrying a camera id is produced only when the N most recent
\* frames of that camera all qualified.
C5_CamerasDoNotShareARun ==
    Emitted => cam_run[last.report[1].camera_id] >= N

\* C6: an inference call that raises is absorbed as an OTHER hypothesis:
\* neither entry point fails with the detector's exception, and the buffer is
\* empty after the bad frame.
C6_DetectorFailureIsOther ==
    /\ result.status # "detector_raised"
    /\ result.status = "detector_raised" => detection_buffer = <<>>

\* C7: in a batch run that submits, every report so far was posted exactly
\* once; incidents_reported holds one id per accepted POST and nothing for a
\* failed one; after a failed POST the buffer is clear, the loop is still
\* running or has returned normally, and the report is the last of the list
\* being built or returned.
C7_SubmissionFailureIsDropped ==
    /\ (pv.pc = "loop" /\ pv.submit_to_api) =>
          api.posts - pv.posts_at_start = Len(pv.incidents)
    /\ (pv.pc = "loop" /\ ~pv.submit_to_api) => api.posts = pv.posts_at_start
    /\ Len(incidents_reported) = api.posts - api.failed
    /\ (last.submit \in {"rejected", "error"}) =>
          /\ Emitted
          /\ detection_buffer = <<>>
          /\ pv.pc = "loop" =>
                pv.incidents[Len(pv.incidents)] = last.report[1]
          /\ (pv.pc = "idle" /\ result.op = "pv" /\ result.status = "returned") =>
                result.value[Len(result.value)] = last.report[1]

\* C7 witness: two reports of one batch run, both POSTs failed, the second by
\* an exception, and frames are still to come
C7_Witness ==
    /\ pv.pc = "loop" /\ pv.submit_to_api /\ pv.frames_left > 0
    /\ last.submit = "error" /\ Len(pv.incidents) = 2 /\ api.failed = 2
    /\ incidents_reported = <<>>

\* C8: every report has an incident type other than OTHER and a confidence
\* that is at least the incident confidence floor and within [0, 1].
C8_ReportsQualify ==
    \A r \in Reports :
        /\ r.incident_type # "OTHER"
        /\ ConfGE(r.confidence_score, Conf(confidence_threshold))
        /\ 0 <= r.confidence_score[1]
        /\ r.confidence_score[1] <= r.confidence_score[2]

\* C8 witness: a report under the default floor of 0.85
C8_Witness ==
    Emitted /\ confidence_threshold = 85

\* C9: a report is built from the hypothesis of the frame that confirmed it
\* and from nothing else: type, confidence, vehicle count, pedestrian flag,
\* bounding boxes, description and the severity of that frame's factors.
C9_ReportFromNthFrameOnly ==
    Emitted =>
        LET r == last.report[1]
            d == detect(last.boxes)
        IN  /\ r.incident_type = d.incident_type
            /\ r.confidence_score = d.confidence
            /\ r.vehicles_involved = Len(d.vehicles)
            /\ r.pedestrian_involved = (Len(d.pedestrians) > 0)
            /\ r.bounding_boxes = d.bounding_boxes
            /\ r.description = d.description
            /\ r.severity =
                  calculate_severity(
                      SeverityFactors(Len(d.vehicles), Len(d.pedestrians) > 0,
                                      d.incident_type = "ROLLOVER",
                                      d.incident_type = "MULTI_VEHICLE",
                                      d.confidence)).level

\* C9 witness: with N = 3, a report whose preceding frame had another
\* incident type and a higher confidence
C9_Witness ==
    /\ N = 3 /\ Emitted /\ Len(trace) = 2
    /\ detect(trace[1]).incident_type # last.report[1].incident_type
    /\ ~ConfGE(last.report[1].confidence_score, detect(trace[1]).confidence)

\* C10: a process_frame_realtime call that returns gives back at most one
\* report, and gives one back exactly if its frame qualifies and so did the
\* N-1 hypotheses processed just before it since the last emission or reset.
C10_StreamingReturnsAtNth ==
    (result.op = "rt" /\ result.status = "returned") =>
        /\ Len(result.value) <= 1
        /\ result.value = last.report
        /\ result.value # <<>> <=> (last.qualifies /\ last.before >= N - 1)

\* C10 witness: with N = 3, the third qualifying call in a row returns a report
C10_Witness ==
    /\ N = 3 /\ result.op = "rt" /\ result.status = "returned"
    /\ result.value # <<>> /\ last.before = 2 /\ videos = 0

-----------------------------------------------------------------------------
(* Properties of _classify_incident and _calculate_iou (SpecDetector)       *)

\* the call of function fn has returned
Returned(fn) == call.fn = fn /\ call.value # <<>>

\* the arguments and the value of the _classify_incident call
ArgVehicles == call.args[1]
ArgPedestrians == call.args[2]
Hypothesis == call.value[1]

\* two rationals are the same number
SameNumber(a, b) == a[1] * b[2] = b[1] * a[2]

BoxWidth(b) == b[3] - b[1]
BoxHeight(b) == b[4] - b[2]
BoxArea(b) == BoxWidth(b) * BoxHeight(b)

\* area of the intersection of two boxes, 0 when they do not overlap
InterArea(a, b) ==
    Max(0, Min(a[3], b[3]) - Max(a[1], b[1]))
    * Max(0, Min(a[4], b[4]) - Max(a[2], b[2]))

\* intersection over union of two boxes of positive area exceeds num/den
OverlapsMoreThan(a, b, num, den) ==
    InterArea(a, b) * den > num * (BoxArea(a) + BoxArea(b) - InterArea(a, b))

\* the distance between the centres is under the average width plus 50 pixels
Near(ped, veh) ==
    LET dx == ped.center[1] - veh.center[1]
        dy == ped.center[2] - veh.center[2]
        sizes == BoxWidth(ped.bbox) + BoxWidth(veh.bbox)
    IN  4 * (dx * dx + dy * dy) < (sizes + 100) * (sizes + 100)

\* the unordered pairs of vehicles whose IoU exceeds num/den
OverlappingPairs(v, num, den) ==
    {S \in SUBSET (1..Len(v)) :
        /\ Cardinality(S) = 2
        /\ \E i \in S, j \in S :
              i < j /\ OverlapsMoreThan(v[i].bbox, v[j].bbox, num, den)}

\* the four rules of the classifier, each stated on its own
PedRule(v, p) == \E i \in 1..Len(p), j \in 1..Len(v) : Near(p[i], v[j])
MultiRule(v) == Len(v) >= 3 /\ Cardinality(OverlappingPairs(v, 1, 10)) >= 2
CollisionRule(v) == Len(v) >= 2 /\ OverlappingPairs(v, 3, 10) # {}
Tilted(veh) ==
    \/ 10 * BoxWidth(veh.bbox) < 7 * BoxHeight(veh.bbox)
    \/ 7 * BoxWidth(veh.bbox) > 10 * BoxHeight(veh.bbox)
RolloverRule(v) == \E i \in 1..Len(v) : Tilted(v[i])

\* the type the fixed priority order gives
FirstMatch(v, p) ==
    IF PedRule(v, p) THEN "PEDESTRIAN_IMPACT"
    ELSE IF MultiRule(v) THEN "MULTI_VEHICLE"
    ELSE IF CollisionRule(v) THEN "VEHICLE_COLLISION"
    ELSE IF RolloverRule(v) THEN "ROLLOVER"
    ELSE "OTHER"

\* C11: _classify_incident returns one hypothesis, of the type of the first
\* rule that matches in the order PEDESTRIAN_IMPACT, MULTI_VEHICLE,
\* VEHICLE_COLLISION, ROLLOVER, and OTHER with confidence 0.0 when none does.
C11_FirstMatchInPriorityOrder ==
    Returned("_classify_incident") =>
        /\ Len(call.value) = 1
        /\ Hypothesis[1] = FirstMatch(ArgVehicles, ArgPedestrians)
        /\ Hypothesis[1] = "OTHER" => Hypothesis[2][1] = 0

\* a frame where the pedestrian, the pile-up, the collision and the rollover
\* rules all match is classified PEDESTRIAN_IMPACT
C11_Witness ==
    /\ Returned("_classify_incident")
    /\ PedRule(ArgVehicles, ArgPedestrians)
    /\ MultiRule(ArgVehicles)
    /\ CollisionRule(ArgVehicles)
    /\ RolloverRule(ArgVehicles)
    /\ Hypothesis[1] = "PEDESTRIAN_IMPACT"


\* the pedestrian (i) and vehicle (j) pairs in proximity, and the one the
\* loops over pedestrians, then vehicles, meet first
NearPairs(v, p) ==
    {q \in (1..Len(p)) \X (1..Len(v)) : Near(p[q[1]], v[q[2]])}
FirstNearPair(v, p) ==
    CHOOSE q \in NearPairs(v, p) :
        \A o \in NearPairs(v, p) : q[1] < o[1] \/ (q[1] = o[1] /\ q[2] <= o[2])

\* the larger of two rationals
Larger(a, b) == IF a[1] * b[2] >= b[1] * a[2] THEN a ELSE b

\* the example of the specification: Walker alone with BesideWalker
WalkerExample ==
    /\ call.fn = "_classify_incident"
    /\ ArgVehicles = <<DetectionResult(YoloBox(7, 55, BesideWalker))>>
    /\ ArgPedestrians = <<DetectionResult(YoloBox(0, 85, Walker))>>

\* C12: PEDESTRIAN_IMPACT is returned exactly when some pedestrian and some
\* vehicle have their centres closer than the average of their widths plus 50
\* pixels; its confidence is the larger of the confidences of the matching
\* pair; centres (100,100) and (120,110) with average size 80 trigger it.
C12_PedestrianProximity ==
    Returned("_classify_incident") =>
        /\ Hypothesis[1] = "PEDESTRIAN_IMPACT" <=> PedRule(ArgVehicles, ArgPedestrians)
        /\ Hypothesis[1] = "PEDESTRIAN_IMPACT" =>
              LET q == FirstNearPair(ArgVehicles, ArgPedestrians)
              IN  SameNumber(Hypothesis[2],
                             Larger(ArgPedestrians[q[1]].confidence,
                                    ArgVehicles[q[2]].confidence))
        /\ WalkerExample =>
              /\ ArgPedestrians[1].center = <<100, 100>>
              /\ ArgVehicles[1].center = <<120, 110>>
              /\ BoxWidth(ArgPedestrians[1].bbox) + BoxWidth(ArgVehicles[1].bbox) = 2 * 80
              /\ Hypothesis[1] = "PEDESTRIAN_IMPACT"

\* the example has been classified, with the pedestrian's confidence (0.85)
\* as the larger of the two
C12_Witness ==
    /\ Returned("_classify_incident")
    /\ WalkerExample
    /\ Hypothesis[1] = "PEDESTRIAN_IMPACT"
    /\ SameNumber(Hypothesis[2], Conf(85))


RECURSIVE TotalConfidence(_, _)
\* the confidences (in hundredths) of the first n vehicles, added up
TotalConfidence(v, n) ==
    IF n = 0 THEN 0 ELSE v[n].confidence[1] + TotalConfidence(v, n - 1)

\* vehicle i overlaps no other vehicle of the frame
OverlapsNothing(v, i) ==
    \A j \in 1..Len(v) : j # i => InterArea(v[i].bbox, v[j].bbox) = 0

\* C13: when no pedestrian rule matches, MULTI_VEHICLE is returned exactly
\* when the frame has at least 3 vehicles and at least 2 distinct unordered
\* pairs of them have IoU over 0.1 (strictly); its confidence is the mean of
\* the confidences of all the vehicles, those that overlap nothing included.
C13_MultiVehicle ==
    (Returned("_classify_incident") /\ ~PedRule(ArgVehicles, ArgPedestrians)) =>
        /\ Hypothesis[1] = "MULTI_VEHICLE" <=> MultiRule(ArgVehicles)
        /\ Hypothesis[1] = "MULTI_VEHICLE" =>
              SameNumber(Hypothesis[2],
                         <<TotalConfidence(ArgVehicles, Len(ArgVehicles)),
                           100 * Len(ArgVehicles)>>)

\* a pile-up of three vehicles has been classified in a frame that also shows
\* a vehicle overlapping nothing and a pedestrian near no vehicle
C13_Witness ==
    /\ Returned("_classify_incident")
    /\ ~PedRule(ArgVehicles, ArgPedestrians)
    /\ ArgPedestrians # <<>>
    /\ Len(ArgVehicles) = 4
    /\ \E i \in 1..Len(ArgVehicles) : OverlapsNothing(ArgVehicles, i)
    /\ Hypothesis[1] = "MULTI_VEHICLE"


\* the vehicle pairs (i < j) with IoU over 0.3, and the one the nested loops
\* meet first
CollidingPairs(v) ==
    {q \in (1..Len(v)) \X (1..Len(v)) :
        q[1] < q[2] /\ OverlapsMoreThan(v[q[1]].bbox, v[q[2]].bbox, 3, 10)}
FirstCollidingPair(v) ==
    CHOOSE q \in CollidingPairs(v) :
        \A o \in CollidingPairs(v) : q[1] < o[1] \/ (q[1] = o[1] /\ q[2] <= o[2])

\* the example of the specification: boxes (0,0,100,100) and (50,50,150,150) alone
SquaresExample ==
    /\ call.fn = "_classify_incident"
    /\ ArgVehicles = <<DetectionResult(YoloBox(2, 90, SquareA)),
                       DetectionResult(YoloBox(7, 80, SquareB))>>
    /\ ArgPedestrians = <<>>

\* C14: when neither the pedestrian nor the pile-up rule matches,
\* VEHICLE_COLLISION is returned exactly when the frame has at least 2
\* vehicles and some pair has IoU over 0.3 (strictly), with the larger of that
\* pair's confidences; the boxes (0,0,100,100) and (50,50,150,150) alone
\* (intersection 2500, union 17500) are not a collision.
C14_VehicleCollision ==
    /\ (Returned("_classify_incident") /\ ~PedRule(ArgVehicles, ArgPedestrians)
          /\ ~MultiRule(ArgVehicles)) =>
          /\ Hypothesis[1] = "VEHICLE_COLLISION" <=> CollisionRule(ArgVehicles)
          /\ Hypothesis[1] = "VEHICLE_COLLISION" =>
                LET q == FirstCollidingPair(ArgVehicles)
                IN  SameNumber(Hypothesis[2],
                               Larger(ArgVehicles[q[1]].confidence,
                                      ArgVehicles[q[2]].confidence))
    /\ (Returned("_classify_incident") /\ SquaresExample) =>
          /\ InterArea(SquareA, SquareB) = 2500
          /\ BoxArea(SquareA) + BoxArea(SquareB) - InterArea(SquareA, SquareB) = 17500
          /\ Hypothesis[1] # "VEHICLE_COLLISION"

\* a collision has been classified whose colliding pair is not the first two
\* vehicles of the frame, in a frame where the rollover rule matches too
C14_Witness ==
    /\ Returned("_classify_incident")
    /\ ~PedRule(ArgVehicles, ArgPedestrians)
    /\ ~MultiRule(ArgVehicles)
    /\ RolloverRule(ArgVehicles)
    /\ Hypothesis[1] = "VEHICLE_COLLISION"
    /\ FirstCollidingPair(ArgVehicles) # <<1, 2>>


\* the aspect ratio of the vehicle is exactly 0.7 or exactly 1/0.7
AtBound(veh) ==
    \/ 10 * BoxWidth(veh.bbox) = 7 * BoxHeight(veh.bbox)
    \/ 7 * BoxWidth(veh.bbox) = 10 * BoxHeight(veh.bbox)

\* the first vehicle, in detection order, with a tilted box
FirstTilted(v) ==
    CHOOSE i \in 1..Len(v) : Tilted(v[i]) /\ \A j \in 1..(i - 1) : ~Tilted(v[j])

\* C15: when no higher rule matches, ROLLOVER is returned exactly when some
\* vehicle's width/height ratio is under 0.7 or over 1/0.7, strictly (a ratio
\* equal to a bound is no rollover), with the confidence of the first such
\* vehicle in detection order; otherwise the result is OTHER with 0.0.
C15_Rollover ==
    (Returned("_classify_incident") /\ ~PedRule(ArgVehicles, ArgPedestrians)
       /\ ~MultiRule(ArgVehicles) /\ ~CollisionRule(ArgVehicles)) =>
        /\ Hypothesis[1] = "ROLLOVER" <=> RolloverRule(ArgVehicles)
        /\ Hypothesis[1] = "ROLLOVER" =>
              SameNumber(Hypothesis[2],
                         ArgVehicles[FirstTilted(ArgVehicles)].confidence)
        /\ ~RolloverRule(ArgVehicles) =>
              Hypothesis[1] = "OTHER" /\ Hypothesis[2][1] = 0
        /\ (\A i \in 1..Len(ArgVehicles) : AtBound(ArgVehicles[i])) =>
              Hypothesis[1] = "OTHER"

\* a rollover has been classified on the third vehicle of a frame whose first
\* two vehicles have the ratios 0.7 and 1/0.7
C15_Witness ==
    /\ Returned("_classify_incident")
    /\ Len(ArgVehicles) = 3
    /\ 10 * BoxWidth(ArgVehicles[1].bbox) = 7 * BoxHeight(ArgVehicles[1].bbox)
    /\ 7 * BoxWidth(ArgVehicles[2].bbox) = 10 * BoxHeight(ArgVehicles[2].bbox)
    /\ Hypothesis[1] = "ROLLOVER"
    /\ FirstTilted(ArgVehicles) = 3


\* the arguments and the value of the _calculate_iou call
ArgBoxA == call.args[1]
ArgBoxB == call.args[2]
Iou == call.value[1]

\* the boxes share no area: one lies beside, above or below the other, or
\* they only touch on an edge or a corner
NoOverlap(a, b) ==
    a[3] <= b[1] \/ b[3] <= a[1] \/ a[4] <= b[2] \/ b[4] <= a[2]

\* C16: for integer boxes A and B with x1 < x2 and y1 < y2, _calculate_iou is
\* symmetric, gives 1 for a box with itself, gives 0 when the boxes do not
\* overlap (boxes touching on an edge or a corner included), and always
\* lies in [0, 1].
C16_IouAlgebra ==
    Returned("_calculate_iou") =>
        /\ SameNumber(Iou, calculate_iou(ArgBoxB, ArgBoxA))
        /\ ArgBoxA = ArgBoxB => SameNumber(Iou, <<1, 1>>)
        /\ NoOverlap(ArgBoxA, ArgBoxB) => Iou[1] = 0
        /\ Iou[2] > 0 /\ 0 <= Iou[1] /\ Iou[1] <= Iou[2]

\* the IoU of two boxes that touch on a corner only has been computed, and is 0
C16_Witness ==
    /\ Returned("_calculate_iou")
    /\ ArgBoxA[3] = ArgBoxB[1]
    /\ ArgBoxA[4] = ArgBoxB[2]
    /\ Iou[1] = 0


-----------------------------------------------------------------------------
(* Properties of the severity scorer (SpecScorer)                           *)

\* the factors and the value of the SeverityScorer.calculate_severity call
ArgFactors == call.args[1]
Severity == call.value[1]

\* twice the sum of the weights of the factors that hold
DoubledPoints(f) ==
    (IF f.pedestrian_involved THEN 6 ELSE 0)
    + (IF f.is_rollover THEN 5 ELSE 0)
    + (IF f.is_multi_vehicle THEN 4 ELSE 0)
    + (IF f.fire_smoke_detected THEN 7 ELSE 0)
    + (IF f.estimated_speed > 60 THEN 4 ELSE 0)
    + (IF f.traffic_density = "high" THEN 2 ELSE 0)
    + Max(0, f.vehicle_count - 1)

\* (points2 / 2) * (min(confidence, 1.0) + 0.5), as a fraction
ScaledScore(points2, confidence) ==
    <<points2 * (2 * Min(confidence[1], confidence[2]) + confidence[2]),
      4 * confidence[2]>>

\* the level of a score (a fraction with a positive denominator)
LevelOf(score) ==
    IF score[1] >= 6 * score[2] THEN "CRITICAL"
    ELSE IF score[1] >= 4 * score[2] THEN "HIGH"
    ELSE IF score[1] >= 2 * score[2] THEN "MEDIUM"
    ELSE "LOW"

\* the examples: two vehicles at 0.8, and one vehicle with a pedestrian at 0.85
MinorCollision ==
    [SeverityFactorsDefaults EXCEPT !.vehicle_count = 2,
                                    !.detection_confidence = Conf(80)]
PedestrianHit ==
    [SeverityFactorsDefaults EXCEPT !.vehicle_count = 1,
                                    !.pedestrian_involved = TRUE,
                                    !.detection_confidence = Conf(85)]

\* C17: calculate_severity scores the sum of the weights of the factors that
\* hold (pedestrian 3.0, rollover 2.5, multi-vehicle 2.0, fire/smoke 3.5,
\* speed over 60 2.0, high traffic 1.0, 0.5 per vehicle beyond the first)
\* times (min(detection_confidence, 1.0) + 0.5), and maps the score to
\* CRITICAL from 6.0, HIGH from 4.0, MEDIUM from 2.0 and LOW below; two
\* vehicles at 0.8 are LOW, one vehicle with a pedestrian at 0.85 scores 4.05
\* and is HIGH.
C17_SeverityFormula ==
    Returned("SeverityScorer.calculate_severity") =>
        LET expected == ScaledScore(DoubledPoints(ArgFactors),
                                    ArgFactors.detection_confidence)
        IN  /\ SameNumber(Severity.score, expected)
            /\ Severity.level = LevelOf(expected)
            /\ ArgFactors = MinorCollision => Severity.level = "LOW"
            /\ ArgFactors = PedestrianHit =>
                  SameNumber(Severity.score, <<405, 100>>) /\ Severity.level = "HIGH"

\* the pedestrian example has been scored HIGH
C17_Witness ==
    /\ Returned("SeverityScorer.calculate_severity")
    /\ ArgFactors = PedestrianHit
    /\ Severity.level = "HIGH"


\* one fraction is at least the other (positive denominators)
AtLeast(a, b) == a[1] * b[2] >= b[1] * a[2]

\* the levels in rising order
Rank(level) ==
    CASE level = "LOW" -> 1
      [] level = "MEDIUM" -> 2
      [] level = "HIGH" -> 3
      [] level = "CRITICAL" -> 4

\* the score of the same bundle with vehicle_count replaced by k
WithVehicleCount(k) ==
    calculate_severity([ArgFactors EXCEPT !.vehicle_count = k])

\* the confidence of the bundle lies in [0, 1]
ConfidenceInUnit ==
    /\ 0 <= ArgFactors.detection_confidence[1]
    /\ ArgFactors.detection_confidence[1] <= ArgFactors.detection_confidence[2]

\* C18: of two SeverityFactors bundles that differ only in vehicle_count
\* (detection_confidence in [0, 1]), the one with the larger vehicle_count
\* gets a score, and so a level, at least as high as the other's.
C18_MonotoneInVehicleCount ==
    (Returned("SeverityScorer.calculate_severity") /\ ConfidenceInUnit) =>
        \A k \in 0..(MaxVehicleCount + 1) :
            k >= ArgFactors.vehicle_count =>
                /\ AtLeast(WithVehicleCount(k).score, Severity.score)
                /\ Rank(WithVehicleCount(k).level) >= Rank(Severity.level)

\* a bundle has been scored whose level rises with one more vehicle
C18_Witness ==
    /\ Returned("SeverityScorer.calculate_severity")
    /\ ConfidenceInUnit
    /\ ArgFactors.vehicle_count >= 1
    /\ Rank(WithVehicleCount(ArgFactors.vehicle_count + 1).level) > Rank(Severity.level)


\* vehicle_count=4, is_multi_vehicle=True, is_rollover=True and nothing else:
\* as keyword arguments of the module-level calculate_severity, and as a
\* SeverityFactors bundle
RolloverPileUpKwargs == Kwargs(<<4>>, <<>>, <<TRUE>>, <<TRUE>>, <<>>, <<>>)
RolloverPileUpFactors ==
    [SeverityFactorsDefaults EXCEPT !.vehicle_count = 4,
                                    !.is_multi_vehicle = TRUE,
                                    !.is_rollover = TRUE]

\* the call scores the example through the module-level function
ConvenienceExample ==
    Returned("calculate_severity") /\ call.args[1] = RolloverPileUpKwargs
\* the call scores the example as a SeverityFactors bundle
BundleExample ==
    Returned("SeverityScorer.calculate_severity") /\ ArgFactors = RolloverPileUpFactors

\* C19 (as stated): scoring vehicle_count=4, is_multi_vehicle, is_rollover
\* with the detection confidence left at its default gives the score
\* (2.0 + 2.5 + 1.5) x 1.35 = 8.1 and CRITICAL, whichever default applies.
C19_DefaultConfidenceGives8Point1 ==
    (ConvenienceExample \/ BundleExample) =>
        SameNumber(Severity.score, <<81, 10>>) /\ Severity.level = "CRITICAL"

\* C19 (amended): scored through the module-level calculate_severity, whose
\* confidence defaults to 0.85, the example gives 8.1 and CRITICAL; scored as
\* a SeverityFactors bundle, whose detection_confidence defaults to 0.0, it
\* gives 6.0 x 0.5 = 3.0 and MEDIUM.
C19_DefaultDependsOnEntryPoint ==
    /\ ConvenienceExample =>
          SameNumber(Severity.score, <<81, 10>>) /\ Severity.level = "CRITICAL"
    /\ BundleExample =>
          SameNumber(Severity.score, <<3, 1>>) /\ Severity.level = "MEDIUM"

\* the example has been scored CRITICAL through the module-level function
C19_Witness ==
    /\ ConvenienceExample
    /\ Severity.level = "CRITICAL"
    /\ Severity.recommendation = get_response_recommendation("CRITICAL")


\* the entries the breakdown must hold: a key and twice its points for each
\* factor that contributes
ExpectedEntries(f) ==
    (IF f.pedestrian_involved THEN {<<"pedestrian_involved", 6>>} ELSE {})
    \cup (IF f.is_rollover THEN {<<"rollover", 5>>} ELSE {})
    \cup (IF f.is_multi_vehicle THEN {<<"multi_vehicle", 4>>} ELSE {})
    \cup (IF f.fire_smoke_detected THEN {<<"fire_smoke", 7>>} ELSE {})
    \cup (IF f.vehicle_count > 1
          THEN {<<"extra_vehicles", f.vehicle_count - 1>>} ELSE {})
    \cup (IF f.estimated_speed > 60 THEN {<<"high_speed", 4>>} ELSE {})
    \cup (IF f.traffic_density = "high" THEN {<<"high_traffic", 2>>} ELSE {})

\* C20: the breakdown has an entry for exactly the factors that contributed,
\* each entry is the points added for its factor, and the score is the sum of
\* the entries times (min(detection_confidence, 1.0) + 0.5).
C20_BreakdownAccountsForScore ==
    Returned("SeverityScorer.calculate_severity") =>
        /\ {<<k, Severity.breakdown[k]>> : k \in DOMAIN Severity.breakdown}
              = ExpectedEntries(ArgFactors)
        /\ \A k \in DOMAIN Severity.breakdown : Severity.breakdown[k] > 0
        /\ SameNumber(Severity.score,
                      ScaledScore(SumOver(Severity.breakdown, DOMAIN Severity.breakdown),
                                  ArgFactors.detection_confidence))

\* a bundle with three vehicles at 61 km/h and nothing else has been scored:
\* its breakdown holds the extra vehicles and the speed only
C20_Witness ==
    /\ Returned("SeverityScorer.calculate_severity")
    /\ ArgFactors.vehicle_count = 3
    /\ DOMAIN Severity.breakdown = {"extra_vehicles", "high_speed"}
    /\ Severity.breakdown["extra_vehicles"] = 2

-----------------------------------------------------------------------------
(* Properties of the backend (SpecBackend)                                  *)

\* the request of the last call of a handler
Request == call.args[1]

\* the dispatch logs of a service in the database d
LogsOf(d, service_type) ==
    SelectSeq(d.dispatch_logs, LAMBDA l : l.service_type = service_type)

\* the queued tasks that run fn
TasksOf(tasks, fn) ==
    SelectSeq(tasks, LAMBDA t : t.task = fn)

\* this step called an ambulance: a log was written or a dispatch queued
AmbulanceCalled ==
    \/ LogsOf(db', "AMBULANCE") # LogsOf(db, "AMBULANCE")
    \/ TasksOf(background_tasks', "dispatch_ambulance")
          # TasksOf(background_tasks, "dispatch_ambulance")
    \/ \E i \in DOMAIN db.incidents :
          /\ db'.incidents[i].status = "DISPATCHED"
          /\ db.incidents[i].status # "DISPATCHED"
          /\ call'.fn # "update_incident"

\* C21: no ambulance is dispatched without a human confirmation.  A
\* dispatch request with confirmed = false is answered 400 and leaves the
\* incidents, the dispatch logs and the queued tasks as they were; a step
\* that writes an AMBULANCE log, queues a dispatch or moves an incident to
\* DISPATCHED is a dispatch request with confirmed = true; the severity
\* policy only answers whether the level is HIGH or CRITICAL, and neither it
\* nor the incident the ML engine posts touches the logs or the queue.
C21_NoDispatchWithoutConfirmation ==
    [][ /\ (call'.fn = "dispatch_ambulance_service" /\ ~call'.args[1].confirmed)
           => /\ call'.value = <<400>>
              /\ UNCHANGED <<db, background_tasks>>
        /\ AmbulanceCalled
           => /\ call'.fn = "dispatch_ambulance_service"
              /\ call'.args[1].confirmed
              /\ call'.args[1].operator_id \in Operators
        /\ call'.fn = "should_auto_dispatch_ambulance"
           => /\ call'.value = <<call'.args[1] \in {"HIGH", "CRITICAL"}>>
              /\ UNCHANGED <<db, background_tasks>>
        /\ call'.fn = "create_incident"
           => /\ db'.dispatch_logs = db.dispatch_logs
              /\ UNCHANGED background_tasks
              /\ \A i \in DOMAIN db'.incidents \ DOMAIN db.incidents :
                    db'.incidents[i].status = "DETECTED"
      ]_vars

\* an unconfirmed dispatch was refused for an incident an operator had
\* verified, which stays VERIFIED with no log and nothing queued
C21_Witness ==
    /\ call.fn = "dispatch_ambulance_service"
    /\ ~Request.confirmed
    /\ call.value = <<400>>
    /\ Found(db, Request.incident_id)
    /\ db.incidents[Request.incident_id].status = "VERIFIED"
    /\ db.dispatch_logs = <<>>
    /\ background_tasks = <<>>

\* C25: an incident is verified before it is reported to police.  A police
\* report that is accepted, writes a POLICE log or sets REPORTED is for an
\* incident that has been VERIFIED by an operator; a report requested for an
\* incident still in DETECTED is answered 400 with no log and no change.
C25_ReportedOnlyAfterVerification ==
    [][ /\ (call'.fn = "send_report_to_police" /\ call'.value = <<200>>)
           => call'.args[1].incident_id \in verified
        /\ LogsOf(db', "POLICE") # LogsOf(db, "POLICE")
           => /\ call'.fn = "send_report_to_police"
              /\ call'.args[1].incident_id \in verified
        /\ (/\ call'.fn = "send_report_to_police"
            /\ Found(db, call'.args[1].incident_id)
            /\ db.incidents[call'.args[1].incident_id].status = "DETECTED")
           => /\ call'.value = <<400>>
              /\ UNCHANGED <<db, background_tasks>>
      ]_vars

-----------------------------------------------------------------------------
(* Properties of the video processor (SpecVideo)                            *)

\* round(a / b) as Python rounds: to the nearest whole number, a half going
\* to the even one
RoundDiv(a, b) ==
    LET q == a \div b
        r == a % b
    IN  IF 2 * r < b THEN q
        ELSE IF 2 * r > b THEN q + 1
        ELSE IF q % 2 = 0 THEN q ELSE q + 1

\* the native frames of a file whose index is a multiple of stride, in
\* increasing order, each with its index as frame_id and index / fps as timestamp
EveryNth(stride, fps, total_frames) ==
    [k \in 1..((total_frames + stride - 1) \div stride) |->
        FrameData((k - 1) * stride, (k - 1) * stride, fps)]

\* the file the caller's processor loaded last
Loaded == captures[Len(captures)]

\* the n-th extract_frames() iterated since the video was loaded had no
\* max_frames and was iterated to its end, and the video is still loaded
IteratedToTheEnd(n) ==
    /\ first.calls = n
    /\ frames_gen.state = "finished"
    /\ frames_gen.max_frames = 0
    /\ video_processor.current_video # 0

IsPrefix(s, t) ==
    /\ Len(s) <= Len(t)
    /\ \A i \in DOMAIN s : s[i] = t[i]

\* C22: the first extract_frames() on a loaded video yields exactly the native
\* frames whose index is a multiple of max(1, round(native_fps / target_fps)),
\* from index 0, in increasing order, with frame_id k and timestamp k / native_fps.
C22_StrideIsRoundedRatio ==
    IteratedToTheEnd(1)
    => yielded = EveryNth(Max(1, RoundDiv(Loaded.fps, video_processor.sample_fps)),
                          Loaded.fps, Loaded.total_frames)

\* C23: the capture is released when a frame sequence ends.  When
\* process_video is not running (it returned, or raised at a frame) the
\* pipeline's processor has no video; when the generator of
\* process_video_file is exhausted, has raised or was abandoned, its
\* processor has no video and every capture it opened is released; a
\* capture is open only while the generator is suspended at a frame.
C23_CaptureReleasedWhenSequenceEnds ==
    /\ pv.pc = "idle" => current_video = FALSE
    /\ (result.op = "pv" /\ result.status \in {"returned", "detector_raised"})
       => current_video = FALSE
    /\ file_gen.state \in {"exhausted", "raised", "closed"}
       => /\ file_gen.processor.current_video = 0
          /\ file_gen.processor.video_info = <<>>
          /\ \A i \in DOMAIN captures : captures[i].released
    /\ file_gen.state # "none"
       => \A i \in DOMAIN captures :
             ~captures[i].released
             => /\ file_gen.state = "suspended"
                /\ file_gen.processor.current_video = i

\* process_video_file was abandoned after it had yielded a frame of a file
\* with more frames to come, and the capture it had opened is released
C23_Witness ==
    /\ file_gen.state = "closed"
    /\ file_gen.out # <<>>
    /\ Len(captures) = 1
    /\ captures[1].pos < captures[1].total_frames
    /\ captures[1].released

\* C24: the frame sequence is restartable.  A second extract_frames() on the
\* loaded video, iterated to its end, yields the frames a first complete
\* call yields, from native frame 0 with the same ids and timestamps, and
\* what the first call yielded is the beginning of it.
C24_SecondCallYieldsTheSameFrames ==
    IteratedToTheEnd(2)
    => /\ yielded = EveryNth(frame_skip(Loaded.fps, video_processor.sample_fps),
                             Loaded.fps, Loaded.total_frames)
       /\ IsPrefix(first.frames, yielded)

-----------------------------------------------------------------------------
(* Batch against streaming (Spec)                                           *)

\* the fields of a report that the two modes are compared on
Decision(report) ==
    [incident_type |-> report.incident_type,
     severity |-> report.severity,
     confidence_score |-> report.confidence_score,
     vehicles_involved |-> report.vehicles_involved,
     pedestrian_involved |-> report.pedestrian_involved]

\* C26: batch and streaming mode make the same confirmation decisions.  From
\* every buffer the pipeline can hold (both modes start from the empty one)
\* and for every next hypothesis, the batch loop body and
\* process_frame_realtime leave the same buffer, emit a report or not
\* alike, and the two reports have the same incident type, severity,
\* confidence, vehicle count and pedestrian flag; so on the same sequence of
\* hypotheses they report at the same positions.
C26_BatchAndStreamingAgree ==
    \A c \in Cameras, boxes \in Scenes :
        LET detection == detect(boxes)
            batch == BatchFrame(detection_buffer, c, detection)
            stream == RealtimeFrame(detection_buffer, c, detection)
        IN  /\ batch.buffer = stream.buffer
            /\ (batch.report = <<>>) <=> (stream.report = <<>>)
            /\ batch.report # <<>>
               => Decision(batch.report[1]) = Decision(stream.report[1])

\* process_video is one frame short of a confirmation that needs several
\* frames, and there is a frame on which either mode would now report
C26_Witness ==
    /\ pv.pc = "loop"
    /\ consecutive_frames_required >= 2
    /\ Len(detection_buffer) = consecutive_frames_required - 1
    /\ \E boxes \in Scenes :
          /\ BatchFrame(detection_buffer, pv.camera_id, detect(boxes)).report # <<>>
          /\ RealtimeFrame(detection_buffer, pv.camera_id, detect(boxes)).report # <<>>

-----------------------------------------------------------------------------
(* Properties of detect (SpecDetector)                                      *)

\* the frame given to detect and the hypothesis it returned
ArgFrame == call.args[1]
Detection == call.value[1]

\* some kept box of the hypothesis d has at least the confidence c
SomeKeptAtLeast(d, c) ==
    \E i \in 1..Len(d.bounding_boxes) : ConfGE(d.bounding_boxes[i].confidence, c)

\* C27: a hypothesis returned by detect whose type is not OTHER has a
\* confidence of at least the detector floor and at most the highest
\* confidence among the kept boxes of the frame, and its detected flag is set;
\* an OTHER hypothesis has confidence 0.0 and its detected flag is not set
C27_DetectedIffNotOther ==
    Returned("detect") =>
        /\ Detection.incident_type # "OTHER" =>
              /\ ConfGE(Detection.confidence, Conf(DetectorThreshold))
              /\ SomeKeptAtLeast(Detection, Detection.confidence)
        /\ Detection.detected <=> Detection.incident_type # "OTHER"
        /\ Detection.incident_type = "OTHER" =>
              /\ Detection.confidence = <<0, 1>>
              /\ ~Detection.detected

\* detect returned a MULTI_VEHICLE hypothesis for a frame of which it dropped a
\* box; its confidence, the average 0.75, is strictly between the floor and
\* the highest kept confidence
C27_Witness ==
    /\ Returned("detect")
    /\ Detection.incident_type = "MULTI_VEHICLE"
    /\ Detection.detected
    /\ Len(Detection.bounding_boxes) < Len(ArgFrame)
    /\ SameNumber(Detection.confidence, Conf(75))
    /\ ~SomeKeptAtLeast(Detection, Conf(91))
    /\ SomeKeptAtLeast(Detection, Conf(90))

-----------------------------------------------------------------------------
(* Properties of the reports on a scene (SpecFrames)                        *)

\* the report emitted for the last frame processed, and that frame
EmittedReport == last.report[1]
ConfirmingFrame == last.boxes

\* the frame holds a person box that detect keeps
HasKeptPerson(boxes) ==
    \E i \in 1..Len(boxes) :
        boxes[i].class_id = PERSON_CLASS /\ boxes[i].conf >= DetectorThreshold

\* the number of vehicle boxes of the frame that detect keeps
KeptVehicles(boxes) ==
    Cardinality({i \in 1..Len(boxes) :
        boxes[i].class_id \in VEHICLE_CLASSES /\ boxes[i].conf >= DetectorThreshold})

\* C28: an emitted report names at least one vehicle; a PEDESTRIAN_IMPACT
\* report has pedestrian_involved set, a MULTI_VEHICLE report names at least
\* three vehicles, a VEHICLE_COLLISION report at least two; and
\* pedestrian_involved is set exactly when the confirming frame holds a
\* pedestrian detection, whatever the incident type
C28_ReportConsistentWithType ==
    last.report # <<>> =>
        /\ EmittedReport.vehicles_involved >= 1
        /\ EmittedReport.incident_type = "PEDESTRIAN_IMPACT" =>
              EmittedReport.pedestrian_involved
        /\ EmittedReport.incident_type = "MULTI_VEHICLE" =>
              EmittedReport.vehicles_involved >= 3
        /\ EmittedReport.incident_type = "VEHICLE_COLLISION" =>
              EmittedReport.vehicles_involved >= 2
        /\ EmittedReport.pedestrian_involved <=> HasKeptPerson(ConfirmingFrame)

\* a MULTI_VEHICLE report of three vehicles was emitted for a frame with a
\* pedestrian who is near none of them: pedestrian_involved is set
C28_Witness ==
    /\ last.report # <<>>
    /\ EmittedReport.incident_type = "MULTI_VEHICLE"
    /\ EmittedReport.vehicles_involved = 3
    /\ KeptVehicles(ConfirmingFrame) = 3
    /\ EmittedReport.pedestrian_involved
    /\ HasKeptPerson(ConfirmingFrame)

\* C29: with an incident confidence floor of at least 0.85, a report whose
\* pedestrian_involved flag is set is graded HIGH or CRITICAL
C29_PedestrianReportsAreHighOrCritical ==
    (/\ confidence_threshold >= 85
     /\ last.report # <<>>
     /\ EmittedReport.pedestrian_involved)
        => EmittedReport.severity \in {"HIGH", "CRITICAL"}

\* with the floor at 0.85, a PEDESTRIAN_IMPACT report with confidence exactly
\* 0.85 and a single vehicle was emitted: 3.0 * 1.35 = 4.05, graded HIGH
C29_Witness ==
    /\ confidence_threshold = 85
    /\ last.report # <<>>
    /\ EmittedReport.incident_type = "PEDESTRIAN_IMPACT"
    /\ EmittedReport.pedestrian_involved
    /\ EmittedReport.vehicles_involved = 1
    /\ SameNumber(EmittedReport.confidence_score, Conf(85))
    /\ EmittedReport.severity = "HIGH"

\* the severity factors and the severity result behind the emitted report
ReportFactors == PipelineFactors(detect(ConfirmingFrame))
ReportSeverity == calculate_severity(ReportFactors)

\* C30: no hypothesis and no report has type FIRE_SMOKE; the severity factors
\* behind a report leave fire_smoke_detected, estimated_speed and
\* traffic_density at their defaults and never set is_rollover together with
\* is_multi_vehicle, so the report's severity is made of the pedestrian,
\* rollover, multi-vehicle and extra-vehicle contributions only
C30_NoFireSmokeNoSpeedNoDensity ==
    /\ last.boxes # <<>> => detect(ConfirmingFrame).incident_type # "FIRE_SMOKE"
    /\ last.report # <<>> =>
          /\ EmittedReport.incident_type # "FIRE_SMOKE"
          /\ ~ReportFactors.fire_smoke_detected
          /\ ReportFactors.estimated_speed = SeverityFactorsDefaults.estimated_speed
          /\ ReportFactors.traffic_density = SeverityFactorsDefaults.traffic_density
          /\ ~(ReportFactors.is_rollover /\ ReportFactors.is_multi_vehicle)
          /\ DOMAIN ReportSeverity.breakdown \subseteq
                {"pedestrian_involved", "rollover", "multi_vehicle", "extra_vehicles"}
          /\ EmittedReport.severity = ReportSeverity.level

\* a ROLLOVER report naming three vehicles was emitted: its severity is made
\* of the rollover and the extra-vehicle contributions
C30_Witness ==
    /\ last.report # <<>>
    /\ EmittedReport.incident_type = "ROLLOVER"
    /\ EmittedReport.vehicles_involved = 3
    /\ ReportFactors.is_rollover
    /\ DOMAIN ReportSeverity.breakdown = {"rollover", "extra_vehicles"}

=============================================================================
